---- MODULE Spec2Model ----
(***************************************************************************)
(* Helvum: the PipeWire backend thread (src/pipewire_connection/mod.rs),   *)
(* its object store (src/pipewire_connection/state.rs), and on the GTK     *)
(* side the GraphManager (src/graph_manager.rs) with the port and graph    *)
(* view widgets it drives (src/ui/graph, src/view).                        *)
(*                                                                         *)
(* The specifications share the variables:                                 *)
(*   SpecStore  arbitrary sequences of State::insert / State::remove calls *)
(*              on one State value;                                        *)
(*   SpecIdent  nodes given their ident by State::get_node_ident as they   *)
(*              are inserted, and removed again;                           *)
(*   Spec       thread_main: the connect / retry loop, and, while          *)
(*              connected, the registry, proxy, core and channel callbacks *)
(*              run by the single-threaded main loop;                      *)
(*   SpecLinks  thread_main up to and within its first connection, with    *)
(*              one more link id and only the events that write the store; *)
(*   SpecNodes  the first connection with node globals of every kind of    *)
(*              properties;                                                *)
(*   SpecLoop   thread_main's loop with the control messages, the core     *)
(*              errors and the node globals, under the fairness the main   *)
(*              loop gives: run() returns after quit(), the retry timer    *)
(*              fires, the loop goes on to its next statement;             *)
(*   SpecValid  the first connection with a remote that announces an id    *)
(*              only while it is not announced;                            *)
(*   SpecQueue  such a remote over several connections, with a record of   *)
(*              what the messages sent so far said about each id;          *)
(*   SpecMirror the GraphManager receiving messages in any order, and the  *)
(*              drops of one port widget onto another;                     *)
(*   SpecManager the GraphManager receiving messages that refer to ids it  *)
(*              does not hold, or holds as another kind of widget;         *)
(*   SpecSync   the backend with such a remote together with the           *)
(*              GraphManager, which receives the messages of every step;   *)
(*   SpecZoom   calls of GraphView::set_zoom_factor;                       *)
(*   SpecViewNode calls of add_port and remove_port on one view Node;      *)
(*   SpecPlace  GraphView placing, moving and removing nodes.              *)
(* Every step records the input it handled in ev, the messages it passed   *)
(* to gtk_sender in sent and the requests it made to the remote in req.    *)
(***************************************************************************)
EXTENDS Integers, Sequences, FiniteSets, TLC

VARIABLES
    pc,             \* position of thread_main
    is_stopped,     \* LoopState.is_stopped
    is_connecting,  \* thread_main's local is_connecting
    remote,         \* LoopState.props[REMOTE_NAME]
    quit,           \* mainloop.quit() was called during the current run()
    state,          \* the State of the current connection
    proxies,        \* the proxy table of the current connection (id -> kind)
    ev,             \* the input handled by the last step
    sent,           \* PipewireMessages sent by the last step, in order
    req,            \* remote requests issued by the last step, in order
    live,           \* ids whose latest event in this connection was an appearance
    clash,          \* an insert hit an id holding a Link, or a pair already indexed
    told,           \* per id, what the messages sent in this connection last said
    items,          \* GraphManager.items (id -> widget)
    zoom_factor,    \* GraphView's zoom-factor property, in percent
    pw_sent,        \* GtkMessages the GTK side sent in the last step, in order
    view_node,      \* one view Node: its ports map and its two port counters
    nodes,          \* GraphView.nodes (node id -> position)
    idents          \* per tracked node, the ident get_node_ident returned for it

vars == <<pc, is_stopped, is_connecting, remote, quit, state, proxies,
          ev, sent, req, live, clash, told, items, zoom_factor, pw_sent,
          view_node, nodes, idents>>

view_vars == <<view_node, nodes>>

(* What the actions of thread_main and of its callbacks leave unchanged. *)
ui_vars == <<items, zoom_factor, pw_sent, view_node, nodes, idents>>

----------------------------------------------------------------------------
(* The remote's objects. Ids are u32 handed out by the remote; the model   *)
(* fixes which ids the remote uses for which kind of object.               *)

NumLinks == 2
MaxStoreId == 3
MaxIncrement == 2

NodeIds == {1}
PortIds == {2, 3}
LinkIds == {4}
Ids == NodeIds \cup PortIds \cup LinkIds
MoreLinkIds == 4..(3 + NumLinks)
MoreIds == NodeIds \cup PortIds \cup MoreLinkIds

(* The (output port, input port) pairs a link info may carry, and the ids  *)
(* a ToggleLink message may carry (the ports and one id that is no port).  *)
LinkPairs == {<<2, 3>>, <<3, 2>>}
ToggleIds == PortIds \cup NodeIds

IdentBases == {"a"}
Remotes == {"r"}

PW_ID_CORE == 0
EPIPE == 32
CoreErrorResults == {-EPIPE, -22, 0}

(* GraphView's zoom factor is an f64; the model counts it in percent. *)
ZOOM_MIN == 30
ZOOM_MAX == 400
ZOOM_DEFAULT == 100

----------------------------------------------------------------------------
(* Option<T> and HashMap<K, V>                                             *)

None == [some |-> FALSE]
Some(v) == [some |-> TRUE, val |-> v]

EmptyMap == [k \in {} |-> k]
MapGet(m, k) == IF k \in DOMAIN m THEN Some(m[k]) ELSE None
MapInsert(m, k, v) == [x \in (DOMAIN m) \cup {k} |-> IF x = k THEN v ELSE m[x]]
MapRemove(m, k) == [x \in (DOMAIN m) \ {k} |-> m[x]]

(* view::Node as constructed: no ports, both counters 0 (view/node.rs). *)
Node_new == [ports |-> EmptyMap, num_ports_in |-> 0, num_ports_out |-> 0]

----------------------------------------------------------------------------
(* state.rs: Item and State                                                *)

ItemNode(base) == [kind |-> "Node", ident_base |-> base]
ItemPort(n) == [kind |-> "Port", node_id |-> n]
ItemLink(f, t) == [kind |-> "Link", port_from |-> f, port_to |-> t]

IsKind(opt, k) == opt.some /\ opt.val.kind = k

State_new == [items |-> EmptyMap, links |-> EmptyMap, ident_increments |-> EmptyMap]

insert_noindex(st, id, item) ==
    [st EXCEPT !.items = MapInsert(st.items, id, item)]

insert(st, id, item) ==
    LET l == IF item.kind = "Link"
             THEN MapInsert(st.links, <<item.port_from, item.port_to>>, id)
             ELSE st.links
    IN [st EXCEPT !.links = l, !.items = MapInsert(st.items, id, item)]

get(st, id) == MapGet(st.items, id)

(* insert(id, item) would overwrite a Link item or a pair of the index. *)
Clashes(st, id, item) ==
    \/ IsKind(get(st, id), "Link")
    \/ item.kind = "Link" /\ <<item.port_from, item.port_to>> \in DOMAIN st.links

get_link_id(st, output_port, input_port) ==
    MapGet(st.links, <<output_port, input_port>>)

(* format!("{}{}", ident_base, ident_increment): the characters of the base *)
(* followed by the decimal digits of the counter.                          *)
Chars(str) == CASE str = "a" -> <<"a">>
                [] str = "a1" -> <<"a", "1">>

DigitChars == <<"0", "1", "2", "3", "4", "5", "6", "7", "8", "9">>

RECURSIVE Digits(_)
Digits(n) ==
    LET d == DigitChars[(n % 10) + 1]
    IN IF n < 10 THEN <<d>> ELSE Digits(n \div 10) \o <<d>>

get_node_ident(st, ident_base) ==
    LET old == IF ident_base \in DOMAIN st.ident_increments
               THEN st.ident_increments[ident_base] ELSE 0
        ident_increment == old + 1
    IN [state |-> [st EXCEPT !.ident_increments =
                       MapInsert(st.ident_increments, ident_base, ident_increment)],
        ident |-> Some(Chars(ident_base) \o Digits(ident_increment))]

remove_absentclears(st, id) ==
    LET removed == MapGet(st.items, id)
    IN [state |-> [items |-> MapRemove(st.items, id),
                   links |-> IF IsKind(removed, "Link")
                             THEN MapRemove(st.links,
                                      <<removed.val.port_from, removed.val.port_to>>)
                             ELSE st.links,
                   ident_increments |-> IF IsKind(removed, "Link") \/ IsKind(removed, "Port")
                                        THEN st.ident_increments ELSE EmptyMap],
        removed |-> removed]

remove_keepindex(st, id) ==
    [state |-> [st EXCEPT !.items = MapRemove(st.items, id)],
     removed |-> MapGet(st.items, id)]

remove_keepitem(st, id) ==
    LET removed == MapGet(st.items, id)
    IN [state |-> IF IsKind(removed, "Link")
                  THEN [st EXCEPT !.links = MapRemove(st.links,
                            <<removed.val.port_from, removed.val.port_to>>)]
                  ELSE st,
        removed |-> removed]

remove_cascade(st, id) ==
    LET removed == MapGet(st.items, id)
        items1 == [i \in {j \in (DOMAIN st.items) \ {id} :
                            ~(IsKind(removed, "Node") /\ st.items[j].kind = "Port"
                                /\ st.items[j].node_id = id)} |-> st.items[i]]
        links1 == IF IsKind(removed, "Link")
                  THEN MapRemove(st.links,
                           <<removed.val.port_from, removed.val.port_to>>)
                  ELSE st.links
    IN [state |-> [items |-> items1, links |-> links1,
                   ident_increments |-> st.ident_increments],
        removed |-> removed]

remove(st, id) ==
    LET removed == MapGet(st.items, id)
        items1 == MapRemove(st.items, id)
        links1 == IF IsKind(removed, "Link")
                  THEN MapRemove(st.links,
                           <<removed.val.port_from, removed.val.port_to>>)
                  ELSE st.links
        remaining_idents ==
            IF IsKind(removed, "Node")
            THEN Cardinality({i \in DOMAIN items1 :
                     /\ items1[i].kind = "Node"
                     /\ items1[i].ident_base = removed.val.ident_base})
            ELSE 0
        incs1 == IF IsKind(removed, "Node") /\ remaining_idents = 0
                 THEN MapRemove(st.ident_increments, removed.val.ident_base)
                 ELSE st.ident_increments
    IN [state |-> [items |-> items1, links |-> links1, ident_increments |-> incs1],
        removed |-> removed]

get_node_of_port(st, port) ==
    IF IsKind(get(st, port), "Port") THEN Some(get(st, port).val.node_id) ELSE None

----------------------------------------------------------------------------
(* main.rs: the two message vocabularies                                   *)

Connecting == [type |-> "Connecting"]
Connected == [type |-> "Connected"]
Disconnected == [type |-> "Disconnected"]
NodeAdded(id, node_type) == [type |-> "NodeAdded", id |-> id, node_type |-> node_type]
NodeNameChanged(id) == [type |-> "NodeNameChanged", id |-> id]
PortAdded(id, node_id) == [type |-> "PortAdded", id |-> id, node_id |-> node_id]
PortFormatChanged(id) == [type |-> "PortFormatChanged", id |-> id]
LinkAdded(id, f, t) == [type |-> "LinkAdded", id |-> id, port_from |-> f, port_to |-> t]
LinkStateChanged(id) == [type |-> "LinkStateChanged", id |-> id]
LinkFormatChanged(id) == [type |-> "LinkFormatChanged", id |-> id]
NodeRemoved(id) == [type |-> "NodeRemoved", id |-> id]
PortRemoved(id, node_id) == [type |-> "PortRemoved", id |-> id, node_id |-> node_id]
LinkRemoved(id) == [type |-> "LinkRemoved", id |-> id]

ToggleLink(f, t) == [type |-> "ToggleLink", port_from |-> f, port_to |-> t]
Terminate == [type |-> "Terminate"]
Connect(r) == [type |-> "Connect", remote |-> r]

GtkMessages ==
    {ToggleLink(f, t) : f \in ToggleIds, t \in ToggleIds}
    \cup {Terminate}
    \cup {Connect(None)} \cup {Connect(Some(r)) : r \in Remotes}

(* Requests made to the remote: registry.destroy_global,                   *)
(* core.create_object("link-factory", ...) and proxy.enum_params.          *)
EnumParams(id) == [type |-> "enum_params", id |-> id]
DestroyGlobal(id) == [type |-> "destroy", id |-> id]
CreateLink(node_from, port_from, node_to, port_to) ==
    [type |-> "create", output_node |-> node_from, output_port |-> port_from,
     input_node |-> node_to, input_port |-> port_to]

----------------------------------------------------------------------------
(* mod.rs: the callbacks. Each yields the store and proxy table it leaves, *)
(* what it sent and requested, and whether it panicked (a failed expect).  *)

Result(st, px, s, r) ==
    [state |-> st, proxies |-> px, sent |-> s, req |-> r, panic |-> FALSE]
Panic(st, px) ==
    [state |-> st, proxies |-> px, sent |-> <<>>, req |-> <<>>, panic |-> TRUE]

handle_message_noterminate(ls, msg) ==
    CASE msg.type = "Terminate" -> [ls |-> ls, handled |-> TRUE]
      [] msg.type = "Connect" ->
            [ls |-> [ls EXCEPT !.remote = msg.remote], handled |-> TRUE]
      [] OTHER -> [ls |-> ls, handled |-> FALSE]

handle_message_keepremote(ls, msg) ==
    CASE msg.type = "Terminate" ->
            [ls |-> [ls EXCEPT !.is_stopped = TRUE], handled |-> TRUE]
      [] msg.type = "Connect" -> [ls |-> ls, handled |-> TRUE]
      [] OTHER -> [ls |-> ls, handled |-> FALSE]

handle_message_defaultremote(ls, msg) ==
    CASE msg.type = "Terminate" ->
            [ls |-> [ls EXCEPT !.is_stopped = TRUE], handled |-> TRUE]
      [] msg.type = "Connect" ->
            [ls |-> [ls EXCEPT !.remote = None], handled |-> TRUE]
      [] OTHER -> [ls |-> ls, handled |-> FALSE]

handle_message_allhandled(ls, msg) ==
    CASE msg.type = "Terminate" ->
            [ls |-> [ls EXCEPT !.is_stopped = TRUE], handled |-> TRUE]
      [] msg.type = "Connect" ->
            [ls |-> [ls EXCEPT !.remote = msg.remote], handled |-> TRUE]
      [] OTHER -> [ls |-> ls, handled |-> TRUE]

handle_message(ls, msg) ==
    CASE msg.type = "Terminate" ->
            [ls |-> [ls EXCEPT !.is_stopped = TRUE], handled |-> TRUE]
      [] msg.type = "Connect" ->
            [ls |-> [ls EXCEPT !.remote = msg.remote], handled |-> TRUE]
      [] OTHER -> [ls |-> ls, handled |-> FALSE]

(* Property values are strings of characters; str::contains is the search *)
(* for a substring.                                                        *)
Str_Sink == <<"S", "i", "n", "k">>
Str_Input == <<"I", "n", "p", "u", "t">>
Str_Source == <<"S", "o", "u", "r", "c", "e">>
Str_Output == <<"O", "u", "t", "p", "u", "t">>
Str_Duplex == <<"D", "u", "p", "l", "e", "x">>

contains(str, pat) ==
    \E i \in 0..(Len(str) - Len(pat)) : SubSeq(str, i + 1, i + Len(pat)) = pat

(* The values of media.class and media.category that a node global may    *)
(* carry (None: the property is absent).                                   *)
MediaClasses ==
    {None} \cup {Some(c) : c \in {
        <<"A", "u", "d", "i", "o", "/", "S", "i", "n", "k">>,
        <<"A", "u", "d", "i", "o", "/", "S", "o", "u", "r", "c", "e">>,
        <<"S", "t", "r", "e", "a", "m", "/", "I", "n", "p", "u", "t", "/", "A", "u", "d", "i", "o">>,
        <<"S", "t", "r", "e", "a", "m", "/", "O", "u", "t", "p", "u", "t", "/", "A", "u", "d", "i", "o">>,
        <<"A", "u", "d", "i", "o", "/", "D", "u", "p", "l", "e", "x">>,
        <<"M", "i", "d", "i", "/", "B", "r", "i", "d", "g", "e">>,
        <<"A", "u", "d", "i", "o", "/", "S", "o", "u", "r", "c", "e", "/", "V", "i", "r", "t", "u", "a", "l", "/", "S", "i", "n", "k">>,
        <<"a", "u", "d", "i", "o", "/", "s", "i", "n", "k">> }}

MediaCategories ==
    {None} \cup {Some(c) : c \in {
        <<"D", "u", "p", "l", "e", "x">>,
        <<"P", "l", "a", "y", "b", "a", "c", "k">>,
        <<"C", "a", "p", "t", "u", "r", "e">> }}

NodeProps ==
    {[media_category |-> c, media_class |-> k] : c \in MediaCategories, k \in MediaClasses}

PlainProps == [media_category |-> None, media_class |-> Some(<<"A", "u", "d", "i", "o", "/", "S", "i", "n", "k">>)]

media_class(class) ==
    IF contains(class, Str_Sink) \/ contains(class, Str_Input) THEN Some("Input")
    ELSE IF contains(class, Str_Source) \/ contains(class, Str_Output) THEN Some("Output")
    ELSE None

(* props.get("media.category").and_then(..).or_else(..) of handle_node *)
node_type(props) ==
    LET by_class == IF props.media_class.some
                    THEN media_class(props.media_class.val) ELSE None
        by_category == IF props.media_category.some
                       THEN IF contains(props.media_category.val, Str_Duplex)
                            THEN None
                            ELSE by_class
                       ELSE None
    IN IF by_category.some THEN by_category ELSE by_class

(* props is None for a global without properties. *)
handle_node(st, px, id, props) ==
    IF ~props.some THEN Panic(st, px)
    ELSE Result(insert(st, id, ItemNode("a")),
                MapInsert(px, id, "Node"),
                <<NodeAdded(id, node_type(props.val))>>, <<>>)

handle_node_info_noguard(st, px, id, has_props, has_media_name) ==
    IF ~has_props THEN Result(st, px, <<>>, <<>>)
    ELSE IF has_media_name THEN Result(st, px, <<NodeNameChanged(id)>>, <<>>)
    ELSE Result(st, px, <<>>, <<>>)

handle_node_info(st, px, id, has_props, has_media_name) ==
    IF ~(MapGet(px, id) = Some("Node")) THEN Result(st, px, <<>>, <<>>)
    ELSE IF ~has_props THEN Panic(st, px)
    ELSE IF has_media_name THEN Result(st, px, <<NodeNameChanged(id)>>, <<>>)
    ELSE Result(st, px, <<>>, <<>>)

handle_port(st, px, id) ==
    Result(st, MapInsert(px, id, "Port"), <<>>, <<>>)

(* str::parse::<u32>() of a property value, a string of characters. The   *)
(* inputs have at most nine digits, which always fit a u32.                *)
RECURSIVE DecimalValue(_)
DecimalValue(str) ==
    IF Len(str) = 0 THEN 0
    ELSE 10 * DecimalValue(SubSeq(str, 1, Len(str) - 1))
         + (CHOOSE d \in 0..9 : DigitChars[d + 1] = str[Len(str)])

parse_u32(str) ==
    IF /\ Len(str) > 0
       /\ \A i \in 1..Len(str) : \E d \in 1..10 : DigitChars[d] = str[i]
       /\ Len(str) <= 9
    THEN Some(DecimalValue(str))
    ELSE None

handle_port_info_alwaysinsert(st, px, id, params_changed, node_id_prop, enum_format_readable) ==
    IF ~(MapGet(px, id) = Some("Port")) THEN Result(st, px, <<>>, <<>>)
    ELSE IF ~node_id_prop.some THEN Panic(st, px)
    ELSE IF ~parse_u32(node_id_prop.val).some THEN Panic(st, px)
    ELSE LET node_id == parse_u32(node_id_prop.val).val
         IN Result(insert(st, id, ItemPort(node_id)), px,
                   <<PortAdded(id, node_id)>>,
                   IF enum_format_readable THEN <<EnumParams(id)>> ELSE <<>>)

(* params_changed is the PARAMS bit of the info's change mask, node_id_prop *)
(* the value of its "node.id" property (None when the info has no          *)
(* properties or no such property: both expects panic alike).              *)
handle_port_info(st, px, id, params_changed, node_id_prop, enum_format_readable) ==
    IF ~(MapGet(px, id) = Some("Port")) THEN Result(st, px, <<>>, <<>>)
    ELSE IF IsKind(get(st, id), "Port")
    THEN IF params_changed
         THEN Result(st, px, <<>>, <<>>)    \* TODO: React to param changes
         ELSE Result(st, px, <<>>, <<>>)
    ELSE IF ~node_id_prop.some THEN Panic(st, px)
    ELSE IF ~parse_u32(node_id_prop.val).some THEN Panic(st, px)
    ELSE LET node_id == parse_u32(node_id_prop.val).val
         IN Result(insert(st, id, ItemPort(node_id)), px,
                   <<PortAdded(id, node_id)>>,
                   IF enum_format_readable THEN <<EnumParams(id)>> ELSE <<>>)

handle_port_enum_format(st, px, port_id) ==
    Result(st, px, <<PortFormatChanged(port_id)>>, <<>>)

handle_link(st, px, id) ==
    Result(st, MapInsert(px, id, "Link"), <<>>, <<>>)

handle_link_info_alwaysadded(st, px, id, port_from, port_to, change_mask) ==
    Result(insert(st, id, ItemLink(port_from, port_to)), px,
           <<LinkAdded(id, port_from, port_to)>>, <<>>)

handle_link_info(st, px, id, port_from, port_to, change_mask) ==
    IF IsKind(get(st, id), "Link")
    THEN Result(st, px,
                (IF "STATE" \in change_mask THEN <<LinkStateChanged(id)>> ELSE <<>>)
                \o (IF "FORMAT" \in change_mask THEN <<LinkFormatChanged(id)>> ELSE <<>>),
                <<>>)
    ELSE Result(insert(st, id, ItemLink(port_from, port_to)), px,
                <<LinkAdded(id, port_from, port_to)>>, <<>>)

global_remove_kindless(st, px, id) ==
    LET r == remove(st, id)
    IN Result(r.state, MapRemove(px, id),
              IF r.removed.some THEN <<NodeRemoved(id)>> ELSE <<>>, <<>>)

global_remove_keepstore(st, px, id) ==
    LET r == remove(st, id)
        msg == CASE IsKind(r.removed, "Node") -> <<NodeRemoved(id)>>
                 [] IsKind(r.removed, "Port") -> <<PortRemoved(id, r.removed.val.node_id)>>
                 [] IsKind(r.removed, "Link") -> <<LinkRemoved(id)>>
                 [] OTHER -> <<>>
    IN Result(st, MapRemove(px, id), msg, <<>>)

global_remove(st, px, id) ==
    LET r == remove(st, id)
        msg == CASE IsKind(r.removed, "Node") -> <<NodeRemoved(id)>>
                 [] IsKind(r.removed, "Port") -> <<PortRemoved(id, r.removed.val.node_id)>>
                 [] IsKind(r.removed, "Link") -> <<LinkRemoved(id)>>
                 [] OTHER -> <<>>
    IN Result(r.state, MapRemove(px, id), msg, <<>>)

toggle_link_nolookup(st, px, port_from, port_to) ==
    LET node_from == get_node_of_port(st, port_from)
        node_to == get_node_of_port(st, port_to)
    IN IF ~node_from.some \/ ~node_to.some THEN Panic(st, px)
       ELSE Result(st, px, <<>>,
                   <<CreateLink(node_from.val, port_from, node_to.val, port_to)>>)

toggle_link_eitherorder(st, px, port_from, port_to) ==
    LET link == IF get_link_id(st, port_from, port_to).some
                THEN get_link_id(st, port_from, port_to)
                ELSE get_link_id(st, port_to, port_from)
        node_from == get_node_of_port(st, port_from)
        node_to == get_node_of_port(st, port_to)
    IN IF link.some THEN Result(st, px, <<>>, <<DestroyGlobal(link.val)>>)
       ELSE IF ~node_from.some \/ ~node_to.some THEN Panic(st, px)
       ELSE Result(st, px, <<>>,
                   <<CreateLink(node_from.val, port_from, node_to.val, port_to)>>)

toggle_link_eagerremove(st, px, port_from, port_to) ==
    LET link == get_link_id(st, port_from, port_to)
        node_from == get_node_of_port(st, port_from)
        node_to == get_node_of_port(st, port_to)
    IN IF link.some
       THEN Result(remove(st, link.val).state, px, <<>>, <<DestroyGlobal(link.val)>>)
       ELSE IF ~node_from.some \/ ~node_to.some THEN Panic(st, px)
       ELSE Result(st, px, <<>>,
                   <<CreateLink(node_from.val, port_from, node_to.val, port_to)>>)

toggle_link_pending(st, px, port_from, port_to) ==
    LET link == get_link_id(st, port_from, port_to)
        node_from == get_node_of_port(st, port_from)
        node_to == get_node_of_port(st, port_to)
    IN IF link.some THEN Result(st, px, <<>>, <<DestroyGlobal(link.val)>>)
       ELSE IF ~node_from.some \/ ~node_to.some THEN Panic(st, px)
       ELSE Result([st EXCEPT !.links = MapInsert(st.links, <<port_from, port_to>>, 0)],
                   px, <<>>,
                   <<CreateLink(node_from.val, port_from, node_to.val, port_to)>>)

toggle_link(st, px, port_from, port_to) ==
    LET link == get_link_id(st, port_from, port_to)
        node_from == get_node_of_port(st, port_from)
        node_to == get_node_of_port(st, port_to)
    IN IF link.some THEN Result(st, px, <<>>, <<DestroyGlobal(link.val)>>)
       ELSE IF ~node_from.some \/ ~node_to.some THEN Panic(st, px)
       ELSE Result(st, px, <<>>,
                   <<CreateLink(node_from.val, port_from, node_to.val, port_to)>>)

core_error_silent(id, res) ==
    IF id # PW_ID_CORE THEN [sent |-> <<>>, quit |-> FALSE, panic |-> FALSE]
    ELSE IF res = -EPIPE THEN [sent |-> <<>>, quit |-> TRUE, panic |-> FALSE]
    ELSE [sent |-> <<>>, quit |-> FALSE, panic |-> ~(res < 0)]

core_error_noquit(id, res) ==
    IF id # PW_ID_CORE THEN [sent |-> <<>>, quit |-> FALSE, panic |-> FALSE]
    ELSE IF res = -EPIPE THEN [sent |-> <<Disconnected>>, quit |-> FALSE, panic |-> FALSE]
    ELSE [sent |-> <<>>, quit |-> FALSE, panic |-> ~(res < 0)]

(* The last branch logs SpaResult::from_c(res).into_result().unwrap_err():  *)
(* into_result is an Err only for a negative res, and unwrap_err panics on *)
(* an Ok.                                                                  *)
core_error(id, res) ==
    IF id # PW_ID_CORE THEN [sent |-> <<>>, quit |-> FALSE, panic |-> FALSE]
    ELSE IF res = -EPIPE THEN [sent |-> <<Disconnected>>, quit |-> TRUE, panic |-> FALSE]
    ELSE [sent |-> <<>>, quit |-> FALSE, panic |-> ~(res < 0)]

----------------------------------------------------------------------------
(* thread_main                                                             *)

Init ==
    /\ pc = "init_wait"
    /\ is_stopped = FALSE
    /\ is_connecting = FALSE
    /\ remote = None
    /\ quit = FALSE
    /\ state = State_new
    /\ proxies = EmptyMap
    /\ ev = [type |-> "start"]
    /\ sent = <<>>
    /\ req = <<>>
    /\ live = {}
    /\ clash = FALSE
    /\ told = None
    /\ items = EmptyMap
    /\ zoom_factor = ZOOM_DEFAULT
    /\ pw_sent = <<>>
    /\ view_node = Node_new
    /\ nodes = EmptyMap
    /\ idents = EmptyMap

Waiting == pc \in {"init_wait", "retry_wait"}

(* A message arrives while the loop runs outside a connection (the first   *)
(* wait, or the wait between two connect attempts).                        *)
WaitMessage(msg) ==
    LET r == handle_message([is_stopped |-> is_stopped, remote |-> remote], msg)
    IN /\ Waiting
       /\ ev' = [type |-> "message", msg |-> msg]
       /\ is_stopped' = r.ls.is_stopped
       /\ remote' = r.ls.remote
       /\ quit' = (quit \/ r.handled)
       /\ sent' = <<>>
       /\ req' = <<>>
       /\ UNCHANGED <<pc, is_connecting, state, proxies, live, clash, told, ui_vars>>

(* The 200ms timer of the retry wait fires. *)
RetryTimer ==
    /\ pc = "retry_wait"
    /\ ev' = [type |-> "timer"]
    /\ quit' = TRUE
    /\ sent' = <<>>
    /\ req' = <<>>
    /\ UNCHANGED <<pc, is_stopped, is_connecting, remote, state, proxies, live, clash, told, ui_vars>>

(* mainloop.run() returns from a wait; the receiver is detached. *)
WaitReturns ==
    /\ Waiting
    /\ quit
    /\ ev' = [type |-> "run_returned"]
    /\ pc' = "loop_top"
    /\ quit' = FALSE
    /\ sent' = <<>>
    /\ req' = <<>>
    /\ UNCHANGED <<is_stopped, is_connecting, remote, state, proxies, live, clash, told, ui_vars>>

(* while !is_stopped fails: thread_main returns. *)
ThreadExit ==
    /\ pc = "loop_top"
    /\ is_stopped
    /\ ev' = [type |-> "exit"]
    /\ pc' = "done"
    /\ sent' = <<>>
    /\ req' = <<>>
    /\ state' = State_new
    /\ proxies' = EmptyMap
    /\ live' = {}
    /\ clash' = FALSE
    /\ UNCHANGED <<is_stopped, is_connecting, remote, quit, told, ui_vars>>

(* What the UI has been told about each id by the messages of a connection: *)
(* nothing yet, that it was added, or that it was removed. It is recorded   *)
(* only in a specification whose initial state starts the record.           *)
AddedTypes == {"NodeAdded", "PortAdded", "LinkAdded"}
RemovedTypes == {"NodeRemoved", "PortRemoved", "LinkRemoved"}
ChangedTypes == {"NodeNameChanged", "PortFormatChanged",
                 "LinkStateChanged", "LinkFormatChanged"}

Untold == [id \in Ids |-> "none"]

RECURSIVE Tell(_, _)
Tell(t, msgs) ==
    IF msgs = <<>> THEN t
    ELSE LET m == Head(msgs)
             t1 == IF m.type \in AddedTypes THEN [t EXCEPT ![m.id] = "added"]
                   ELSE IF m.type \in RemovedTypes THEN [t EXCEPT ![m.id] = "removed"]
                   ELSE t
         IN Tell(t1, Tail(msgs))

ConnectFail_resend ==
    /\ pc = "loop_top"
    /\ ~is_stopped
    /\ ev' = [type |-> "connect", ok |-> FALSE, remote |-> remote]
    /\ is_connecting' = TRUE
    /\ sent' = <<Connecting>>
    /\ pc' = "retry_wait"
    /\ req' = <<>>
    /\ UNCHANGED <<is_stopped, remote, quit, state, proxies, live, clash, told, ui_vars>>

(* context.connect fails. *)
ConnectFail ==
    /\ pc = "loop_top"
    /\ ~is_stopped
    /\ ev' = [type |-> "connect", ok |-> FALSE, remote |-> remote]
    /\ is_connecting' = TRUE
    /\ sent' = IF ~is_connecting THEN <<Connecting>> ELSE <<>>
    /\ pc' = "retry_wait"
    /\ req' = <<>>
    /\ UNCHANGED <<is_stopped, remote, quit, state, proxies, live, clash, told, ui_vars>>

NewConnection_kept == [state |-> state, proxies |-> proxies]

(* The store and the proxy table a new connection starts with. *)
NewConnection == [state |-> State_new, proxies |-> EmptyMap]

(* context.connect succeeds. ev records how many items and proxies the     *)
(* previous connection, if any, held when it ended.                        *)
ConnectOk ==
    /\ pc = "loop_top"
    /\ ~is_stopped
    /\ ev' = [type |-> "connect", ok |-> TRUE, remote |-> remote,
              prev_items |-> Cardinality(DOMAIN state.items),
              prev_proxies |-> Cardinality(DOMAIN proxies)]
    /\ is_connecting' = FALSE
    /\ sent' = IF is_connecting THEN <<Connected>> ELSE <<>>
    /\ state' = NewConnection.state
    /\ proxies' = NewConnection.proxies
    /\ live' = {}
    /\ clash' = FALSE
    /\ told' = IF told.some THEN Some(Untold) ELSE told
    /\ UNCHANGED ui_vars
    /\ pc' = "connected"
    /\ req' = <<>>
    /\ UNCHANGED <<is_stopped, remote, quit>>

----------------------------------------------------------------------------
(* Callbacks run by mainloop.run() while connected                         *)

Handle(e, r, lv, cl) ==
    /\ pc = "connected"
    /\ ev' = e
    /\ sent' = r.sent
    /\ req' = r.req
    /\ IF r.panic
       THEN \* the thread unwinds: the connection's tables are dropped
            /\ pc' = "panicked"
            /\ state' = State_new
            /\ proxies' = EmptyMap
            /\ live' = {}
            /\ clash' = FALSE
            /\ told' = told
            /\ UNCHANGED ui_vars
       ELSE /\ pc' = pc
            /\ state' = r.state
            /\ proxies' = r.proxies
            /\ live' = lv
            /\ clash' = (clash \/ cl)
            /\ told' = IF told.some THEN Some(Tell(told.val, r.sent)) ELSE told
            /\ UNCHANGED ui_vars
    /\ UNCHANGED <<is_stopped, is_connecting, remote, quit>>

GtkToggleLink(port_from, port_to) ==
    Handle(ToggleLink(port_from, port_to),
           toggle_link(state, proxies, port_from, port_to), live, FALSE)

GtkControl(msg) ==
    LET r == handle_message([is_stopped |-> is_stopped, remote |-> remote], msg)
    IN /\ pc = "connected"
       /\ msg.type \in {"Terminate", "Connect"}
       /\ ev' = [type |-> "message", msg |-> msg]
       /\ is_stopped' = r.ls.is_stopped
       /\ remote' = r.ls.remote
       /\ quit' = TRUE
       /\ sent' = <<>>
       /\ req' = <<>>
       /\ UNCHANGED <<pc, is_connecting, state, proxies, live, clash, told, ui_vars>>

CoreError(id, res) ==
    LET r == core_error(id, res)
    IN /\ pc = "connected"
       /\ ev' = [type |-> "core_error", id |-> id, res |-> res]
       /\ sent' = r.sent
       /\ quit' = (quit \/ r.quit)
       /\ req' = <<>>
       /\ IF r.panic
          THEN /\ pc' = "panicked"
               /\ state' = State_new
               /\ proxies' = EmptyMap
               /\ live' = {}
               /\ clash' = FALSE
          ELSE UNCHANGED <<pc, state, proxies, live, clash>>
       /\ UNCHANGED <<is_stopped, is_connecting, remote, told, ui_vars>>

GlobalNode(id, props) ==
    Handle([type |-> "global", kind |-> "Node", id |-> id, props |-> props],
           handle_node(state, proxies, id, props),
           IF props.some THEN live \cup {id} ELSE live,
           Clashes(state, id, ItemNode("a")))

GlobalPort(id) ==
    Handle([type |-> "global", kind |-> "Port", id |-> id],
           handle_port(state, proxies, id), live, FALSE)

GlobalLink(id) ==
    Handle([type |-> "global", kind |-> "Link", id |-> id],
           handle_link(state, proxies, id), live, FALSE)

GlobalRemove(id) ==
    Handle([type |-> "global_remove", id |-> id],
           global_remove(state, proxies, id), live \ {id}, FALSE)

NodeInfo(id, has_props, has_media_name) ==
    Handle([type |-> "node_info", id |-> id, has_props |-> has_props,
            has_media_name |-> has_media_name],
           handle_node_info(state, proxies, id, has_props, has_media_name), live, FALSE)

(* The node id a "node.id" property yields, if the property is there and   *)
(* parses.                                                                 *)
ParsedNodeId(node_id_prop) ==
    IF node_id_prop.some THEN parse_u32(node_id_prop.val) ELSE None

(* The values of the "node.id" property of a port info: absent, no number, *)
(* or the id of a node.                                                    *)
NodeIdProps == {None, Some(<<"x">>)} \cup {Some(Digits(n)) : n \in NodeIds}

(* An info event of a port; it is an appearance of the port when a bound   *)
(* port proxy delivers it and it carries the node.id property.             *)
PortInfo(id, params_changed, node_id_prop, enum_format_readable) ==
    Handle([type |-> "port_info", id |-> id, params_changed |-> params_changed,
            node_id_prop |-> node_id_prop,
            enum_format_readable |-> enum_format_readable],
           handle_port_info(state, proxies, id, params_changed, node_id_prop,
                            enum_format_readable),
           IF MapGet(proxies, id) = Some("Port") /\ ParsedNodeId(node_id_prop).some
           THEN live \cup {id} ELSE live,
           /\ MapGet(proxies, id) = Some("Port")
           /\ ParsedNodeId(node_id_prop).some
           /\ ~IsKind(get(state, id), "Port")
           /\ Clashes(state, id, ItemPort(ParsedNodeId(node_id_prop).val)))

(* A param event of a port, delivered by the listener of its bound proxy; *)
(* the listener ignores every param other than EnumFormat.                *)
PortParam(id) ==
    /\ MapGet(proxies, id) = Some("Port")
    /\ Handle([type |-> "port_param", id |-> id],
              handle_port_enum_format(state, proxies, id), live, FALSE)

LinkInfo(id, port_from, port_to, change_mask) ==
    Handle([type |-> "link_info", id |-> id, port_from |-> port_from,
            port_to |-> port_to, change_mask |-> change_mask],
           handle_link_info(state, proxies, id, port_from, port_to, change_mask),
           live \cup {id},
           /\ ~IsKind(get(state, id), "Link")
           /\ Clashes(state, id, ItemLink(port_from, port_to)))

LeaveMessages_none == <<>>

(* mainloop.run() returns after a quit; the receiver is detached and       *)
(* Disconnected is sent (lines 216-221).                                   *)
LeaveMessages == <<Disconnected>>

LeaveConnected ==
    /\ pc = "connected"
    /\ quit
    /\ ev' = [type |-> "run_returned"]
    /\ sent' = LeaveMessages
    /\ pc' = "loop_top"
    /\ quit' = FALSE
    /\ req' = <<>>
    /\ UNCHANGED <<is_stopped, is_connecting, remote, state, proxies, live, clash, told, ui_vars>>

Next ==
    \/ \E msg \in GtkMessages : WaitMessage(msg)
    \/ RetryTimer
    \/ WaitReturns
    \/ ThreadExit
    \/ ConnectFail
    \/ ConnectOk
    \/ \E f \in ToggleIds, t \in ToggleIds : GtkToggleLink(f, t)
    \/ \E msg \in GtkMessages : GtkControl(msg)
    \/ \E id \in {PW_ID_CORE} \cup NodeIds, res \in CoreErrorResults : CoreError(id, res)
    \/ \E id \in NodeIds, props \in {None, Some(PlainProps)} : GlobalNode(id, props)
    \/ \E id \in PortIds : GlobalPort(id)
    \/ \E id \in LinkIds : GlobalLink(id)
    \/ \E id \in Ids : GlobalRemove(id)
    \/ \E id \in NodeIds, has_props \in BOOLEAN, has_media_name \in BOOLEAN :
           (has_media_name => has_props) /\ NodeInfo(id, has_props, has_media_name)
    \/ \E id \in PortIds, c \in BOOLEAN, n \in NodeIdProps, r \in BOOLEAN :
           \* the change mask is read only for a port that is already tracked,
           \* the params only when node.id was read
           /\ (c => IsKind(get(state, id), "Port"))
           /\ (r => ParsedNodeId(n).some)
           /\ PortInfo(id, c, n, r)
    \/ \E id \in PortIds : PortParam(id)
    \/ \E id \in LinkIds, p \in LinkPairs, m \in SUBSET {"STATE", "FORMAT"} :
           \* the change mask is read only for a link that is already tracked
           /\ (m # {} => IsKind(get(state, id), "Link"))
           /\ LinkInfo(id, p[1], p[2], m)
    \/ LeaveConnected

Spec == Init /\ [][Next]_vars

(* The first connection with NumLinks link ids: the events that write the *)
(* store, and the toggle requests that read it.                            *)
NextLinks ==
    \/ WaitMessage(Connect(None))
    \/ WaitReturns
    \/ ConnectOk
    \/ \E id \in NodeIds : GlobalNode(id, Some(PlainProps))
    \/ \E id \in PortIds : GlobalPort(id)
    \/ \E id \in MoreLinkIds : GlobalLink(id)
    \/ \E id \in MoreIds : GlobalRemove(id)
    \/ \E id \in PortIds, n \in NodeIds : PortInfo(id, FALSE, Some(Digits(n)), FALSE)
    \/ \E id \in MoreLinkIds, p \in LinkPairs : LinkInfo(id, p[1], p[2], {})
    \/ \E f \in ToggleIds, t \in ToggleIds : GtkToggleLink(f, t)

SpecLinks == Init /\ [][NextLinks]_vars

(* thread_main's loop: the messages of the UI, the core errors and the     *)
(* node globals, with the progress the main loop guarantees.               *)
ControlMessages == {Terminate, Connect(None)} \cup {Connect(Some(r)) : r \in Remotes}

NextLoop ==
    \/ \E msg \in GtkMessages : WaitMessage(msg)
    \/ RetryTimer
    \/ WaitReturns
    \/ ThreadExit
    \/ ConnectFail
    \/ ConnectOk
    \/ \E msg \in ControlMessages : GtkControl(msg)
    \/ \E f \in ToggleIds, t \in ToggleIds : GtkToggleLink(f, t)
    \/ \E res \in CoreErrorResults : CoreError(PW_ID_CORE, res)
    \/ \E id \in NodeIds, props \in {None, Some(PlainProps)} : GlobalNode(id, props)
    \/ LeaveConnected

LoopProgress ==
    /\ WF_vars(WaitReturns)
    /\ WF_vars(RetryTimer)
    /\ WF_vars(LeaveConnected)
    /\ WF_vars(ThreadExit)
    /\ WF_vars(ConnectOk \/ ConnectFail)

SpecLoop == Init /\ [][NextLoop]_vars /\ LoopProgress

(* The first connection with the globals of nodes, of every kind of        *)
(* properties, and of ports.                                               *)
NextNodes ==
    \/ WaitMessage(Connect(None))
    \/ WaitReturns
    \/ ConnectOk
    \/ \E id \in NodeIds, props \in {None} \cup {Some(q) : q \in NodeProps} :
           GlobalNode(id, props)
    \/ \E id \in PortIds : GlobalPort(id)
    \/ \E id \in NodeIds \cup PortIds : GlobalRemove(id)

SpecNodes == Init /\ [][NextNodes]_vars

(* The first connection with a remote that keeps to the registry protocol: *)
(* a global is announced for an id that is not announced at the time, info *)
(* events come from bound proxies, a removal is for an announced id. An id *)
(* may be announced again after its removal; the store keeps nothing of a  *)
(* removed id, so it cannot tell such an id from one never used.           *)
Announced(id) == id \in DOMAIN proxies

NextValid ==
    \/ WaitMessage(Connect(None))
    \/ WaitReturns
    \/ ConnectOk
    \/ \E id \in NodeIds : ~Announced(id) /\ GlobalNode(id, Some(PlainProps))
    \/ \E id \in PortIds : ~Announced(id) /\ GlobalPort(id)
    \/ \E id \in MoreLinkIds : ~Announced(id) /\ GlobalLink(id)
    \/ \E id \in MoreIds : Announced(id) /\ GlobalRemove(id)
    \/ \E id \in NodeIds, m \in BOOLEAN : Announced(id) /\ NodeInfo(id, TRUE, m)
    \/ \E id \in PortIds, c \in BOOLEAN, n \in NodeIds :
           Announced(id) /\ PortInfo(id, c, Some(Digits(n)), FALSE)
    \/ \E id \in MoreLinkIds, p \in LinkPairs, m \in SUBSET {"STATE", "FORMAT"} :
           Announced(id) /\ LinkInfo(id, p[1], p[2], m)

SpecValid == Init /\ [][NextValid]_vars

(* The backend->UI queue over several connections with such a remote; a    *)
(* param event of a port answers the enum_params request of its first info. *)
InitQueue ==
    /\ pc = "init_wait"
    /\ is_stopped = FALSE
    /\ is_connecting = FALSE
    /\ remote = None
    /\ quit = FALSE
    /\ state = State_new
    /\ proxies = EmptyMap
    /\ ev = [type |-> "start"]
    /\ sent = <<>>
    /\ req = <<>>
    /\ live = {}
    /\ clash = FALSE
    /\ told = Some(Untold)
    /\ items = EmptyMap
    /\ zoom_factor = ZOOM_DEFAULT
    /\ pw_sent = <<>>
    /\ view_node = Node_new
    /\ nodes = EmptyMap
    /\ idents = EmptyMap

NextQueue ==
    \/ WaitMessage(Connect(None))
    \/ WaitReturns
    \/ ConnectOk
    \/ GtkControl(Connect(None))
    \/ LeaveConnected
    \/ \E id \in NodeIds : ~Announced(id) /\ GlobalNode(id, Some(PlainProps))
    \/ \E id \in PortIds : ~Announced(id) /\ GlobalPort(id)
    \/ \E id \in LinkIds : ~Announced(id) /\ GlobalLink(id)
    \/ \E id \in Ids : Announced(id) /\ GlobalRemove(id)
    \/ \E id \in NodeIds, m \in BOOLEAN : Announced(id) /\ NodeInfo(id, TRUE, m)
    \/ \E id \in PortIds, c, r \in BOOLEAN, n \in NodeIds :
           Announced(id) /\ PortInfo(id, c, Some(Digits(n)), r)
    \/ \E id \in PortIds :
           Announced(id) /\ IsKind(get(state, id), "Port") /\ PortParam(id)
    \/ \E id \in LinkIds, p \in LinkPairs, m \in SUBSET {"STATE", "FORMAT"} :
           Announced(id) /\ LinkInfo(id, p[1], p[2], m)

SpecQueue == InitQueue /\ [][NextQueue]_vars

----------------------------------------------------------------------------
(* State on its own: any sequence of insert and remove calls               *)

StoreIds == 1..MaxStoreId

StoreItems ==
    {ItemNode(b) : b \in IdentBases}
    \cup {ItemPort(n) : n \in NodeIds}
    \cup {ItemLink(p[1], p[2]) : p \in LinkPairs}

InitStore ==
    /\ pc = "store"
    /\ is_stopped = FALSE
    /\ is_connecting = FALSE
    /\ remote = None
    /\ quit = FALSE
    /\ state = State_new
    /\ proxies = EmptyMap
    /\ ev = [type |-> "start"]
    /\ sent = <<>>
    /\ req = <<>>
    /\ live = {}
    /\ clash = FALSE
    /\ told = None
    /\ items = EmptyMap
    /\ zoom_factor = ZOOM_DEFAULT
    /\ pw_sent = <<>>
    /\ view_node = Node_new
    /\ nodes = EmptyMap
    /\ idents = EmptyMap

StoreInsert(id, item) ==
    /\ pc = "store"
    /\ ev' = [type |-> "insert", id |-> id, item |-> item]
    /\ state' = insert(state, id, item)
    /\ clash' = (clash \/ Clashes(state, id, item))
    /\ UNCHANGED <<pc, is_stopped, is_connecting, remote, quit, proxies, sent, req, live, told, ui_vars>>

StoreRemove(id) ==
    /\ pc = "store"
    /\ ev' = [type |-> "remove", id |-> id, removed |-> remove(state, id).removed]
    /\ state' = remove(state, id).state
    /\ UNCHANGED <<pc, is_stopped, is_connecting, remote, quit, proxies, sent, req,
                   live, clash, told, ui_vars>>

StoreGetNodeIdent(ident_base) ==
    /\ pc = "store"
    /\ ~(ident_base \in DOMAIN state.ident_increments
            /\ state.ident_increments[ident_base] >= MaxIncrement)
    /\ ev' = [type |-> "get_node_ident", ident_base |-> ident_base,
              ident |-> get_node_ident(state, ident_base).ident]
    /\ state' = get_node_ident(state, ident_base).state
    /\ UNCHANGED <<pc, is_stopped, is_connecting, remote, quit, proxies, sent, req,
                   live, clash, told, ui_vars>>

NextStore ==
    \/ \E id \in StoreIds, item \in StoreItems : StoreInsert(id, item)
    \/ \E id \in StoreIds : StoreRemove(id)
    \/ \E b \in IdentBases : StoreGetNodeIdent(b)

SpecStore == InitStore /\ [][NextStore]_vars

(* SpecIdent: nodes that take their ident from get_node_ident when they    *)
(* are inserted under an id the store does not hold, and are removed       *)
(* again; idents keeps the ident each tracked node was given.              *)
MaxIdent == 11
DigitBases == {"a", "a1"}

IdentAddNode(id, ident_base) ==
    LET r == get_node_ident(state, ident_base)
    IN /\ pc = "store"
       /\ id \notin DOMAIN state.items
       /\ ~(ident_base \in DOMAIN state.ident_increments
               /\ state.ident_increments[ident_base] >= MaxIdent)
       /\ ev' = [type |-> "add_node", id |-> id, ident_base |-> ident_base]
       /\ state' = insert(r.state, id, ItemNode(ident_base))
       /\ idents' = MapInsert(idents, id, r.ident.val)
       /\ UNCHANGED <<pc, is_stopped, is_connecting, remote, quit, proxies, sent, req,
                      live, clash, told, items, zoom_factor, pw_sent, view_vars>>

IdentRemoveNode(id) ==
    /\ pc = "store"
    /\ id \in DOMAIN state.items
    /\ ev' = [type |-> "remove", id |-> id, removed |-> remove(state, id).removed]
    /\ state' = remove(state, id).state
    /\ idents' = MapRemove(idents, id)
    /\ UNCHANGED <<pc, is_stopped, is_connecting, remote, quit, proxies, sent, req,
                   live, clash, told, items, zoom_factor, pw_sent, view_vars>>

NextIdent ==
    \/ \E id \in StoreIds, b \in DigitBases : IdentAddNode(id, b)
    \/ \E id \in StoreIds : IdentRemoveNode(id)

SpecIdent == InitStore /\ [][NextIdent]_vars

----------------------------------------------------------------------------
(* graph_manager.rs: the widgets GraphManager keeps under the remote's ids. *)
(* Its calls into GraphView and Node, which hold the widgets as children,  *)
(* are outside this model; items is the table the messages are resolved in. *)

Directions == {"Input", "Output"}

WNode(id) == [kind |-> "Node", pipewire_id |-> id]
MediaTypes == {"Unknown", "Audio"}

(* What a message carries besides ids: the direction of PortAdded, the     *)
(* active flag of LinkAdded and LinkStateChanged, the media type of        *)
(* LinkAdded, LinkFormatChanged and PortFormatChanged.                     *)
Payloads == [direction : Directions, active : BOOLEAN, media_type : MediaTypes]
NoPayload == [direction |-> "Input", active |-> FALSE, media_type |-> "Unknown"]

(* A new port widget has the media type Unknown until it is set. *)
WPort(id, direction) ==
    [kind |-> "Port", pipewire_id |-> id, direction |-> direction,
     media_type |-> "Unknown"]
WLink(output_port, input_port, active, media_type) ==
    [kind |-> "Link", output_port |-> output_port, input_port |-> input_port,
     active |-> active, media_type |-> media_type]

IsWidget(opt, kind) == opt.some /\ opt.val.kind = kind

add_node(its, id) == MapInsert(its, id, WNode(id))

(* items.remove(&id) comes first; the cast only decides what is logged. *)
remove_node(its, id) == MapRemove(its, id)

add_port(its, id, node_id, direction) ==
    IF ~MapGet(its, node_id).some THEN its
    ELSE IF ~IsWidget(MapGet(its, node_id), "Node") THEN its
    ELSE MapInsert(its, id, WPort(id, direction))

remove_port(its, id, node_id) ==
    IF ~MapGet(its, node_id).some THEN its
    ELSE IF ~IsWidget(MapGet(its, node_id), "Node") THEN its
    ELSE MapRemove(its, id)

port_media_type_changed_anykind(its, id, media_type) ==
    IF ~MapGet(its, id).some THEN its
    ELSE [its EXCEPT ![id] = [kind |-> its[id].kind, pipewire_id |-> id,
                              direction |-> "Input", media_type |-> media_type]]

port_media_type_changed(its, id, media_type) ==
    IF ~MapGet(its, id).some THEN its
    ELSE IF ~IsWidget(MapGet(its, id), "Port") THEN its
    ELSE [its EXCEPT ![id].media_type = media_type]

add_link(its, id, output_port_id, input_port_id, active, media_type) ==
    IF ~MapGet(its, output_port_id).some THEN its
    ELSE IF ~IsWidget(MapGet(its, output_port_id), "Port") THEN its
    ELSE IF ~MapGet(its, input_port_id).some THEN its
    ELSE IF ~IsWidget(MapGet(its, input_port_id), "Port") THEN its
    ELSE MapInsert(its, id, WLink(output_port_id, input_port_id, active, media_type))

link_state_changed(its, id, active) ==
    IF ~MapGet(its, id).some THEN its
    ELSE IF ~IsWidget(MapGet(its, id), "Link") THEN its
    ELSE [its EXCEPT ![id].active = active]

link_format_changed(its, id, media_type) ==
    IF ~MapGet(its, id).some THEN its
    ELSE IF ~IsWidget(MapGet(its, id), "Link") THEN its
    ELSE [its EXCEPT ![id].media_type = media_type]

remove_link(its, id) == MapRemove(its, id)

clear(its) == EmptyMap

(* The receiver's match; payload holds the fields of the message that are  *)
(* not ids.                                                                *)
attach_receiver(its, msg, payload) ==
    CASE msg.type = "NodeAdded" -> add_node(its, msg.id)
      [] msg.type = "PortAdded" ->
            add_port(its, msg.id, msg.node_id, payload.direction)
      [] msg.type = "PortFormatChanged" ->
            port_media_type_changed(its, msg.id, payload.media_type)
      [] msg.type = "LinkAdded" ->
            add_link(its, msg.id, msg.port_from, msg.port_to,
                     payload.active, payload.media_type)
      [] msg.type = "LinkStateChanged" ->
            link_state_changed(its, msg.id, payload.active)
      [] msg.type = "LinkFormatChanged" ->
            link_format_changed(its, msg.id, payload.media_type)
      [] msg.type = "NodeRemoved" -> remove_node(its, msg.id)
      [] msg.type = "PortRemoved" -> remove_port(its, msg.id, msg.node_id)
      [] msg.type = "LinkRemoved" -> remove_link(its, msg.id)
      [] msg.type = "Disconnected" -> clear(its)
      [] OTHER -> its

GraphManager_toggle_link(port_from, port_to) == <<ToggleLink(port_from, port_to)>>

(* ui/graph/port.rs: the drop target of a port. port is the widget dropped *)
(* on, other_port the dragged one; the result is the port-toggled signal   *)
(* emitted, as its arguments, if any.                                      *)
is_linkable_to(port, other_port) == port.direction # other_port.direction

connect_drop_targetfirst(port, other_port) ==
    IF ~is_linkable_to(port, other_port) THEN None
    ELSE Some(<<port.pipewire_id, other_port.pipewire_id>>)

connect_drop(port, other_port) ==
    IF ~is_linkable_to(port, other_port) THEN None
    ELSE LET output_port == IF port.direction = "Output" THEN port ELSE other_port
             input_port == IF port.direction = "Output" THEN other_port ELSE port
         IN Some(<<output_port.pipewire_id, input_port.pipewire_id>>)

(* view/port.rs: the drag source of an Output port carries a ForwardLink,  *)
(* that of an Input port a ReversedLink; the drop target of an Input port  *)
(* takes only a ForwardLink, that of an Output port only a ReversedLink,   *)
(* and a drop of another type does not reach the handler.                  *)
DragContent(port) ==
    IF port.direction = "Input"
    THEN [type |-> "ReversedLink", id |-> port.pipewire_id]
    ELSE [type |-> "ForwardLink", id |-> port.pipewire_id]

DropTargetType(port) ==
    IF port.direction = "Input" THEN "ForwardLink" ELSE "ReversedLink"

view_connect_drop(port, val) ==
    IF val.type # DropTargetType(port) THEN None
    ELSE IF port.direction = "Input" THEN Some(<<val.id, port.pipewire_id>>)
    ELSE Some(<<port.pipewire_id, val.id>>)

(* The port_toggled handler GraphManager::add_port connects. *)
port_toggled(signal) ==
    IF signal.some THEN GraphManager_toggle_link(signal.val[1], signal.val[2])
    ELSE <<>>

(* GraphView::set_zoom_factor. The scroll adjustments it recomputes are    *)
(* not part of this model.                                                 *)
clamp(v, min, max) == IF v < min THEN min ELSE IF v > max THEN max ELSE v

set_zoom_factor(zoom) == clamp(zoom, ZOOM_MIN, ZOOM_MAX)

backend_vars == <<pc, is_stopped, is_connecting, remote, quit, state, proxies,
                  sent, req, live, clash, told, idents>>

InitUi ==
    /\ pc = "ui"
    /\ is_stopped = FALSE
    /\ is_connecting = FALSE
    /\ remote = None
    /\ quit = FALSE
    /\ state = State_new
    /\ proxies = EmptyMap
    /\ ev = [type |-> "start"]
    /\ sent = <<>>
    /\ req = <<>>
    /\ live = {}
    /\ clash = FALSE
    /\ told = None
    /\ items = EmptyMap
    /\ zoom_factor = ZOOM_DEFAULT
    /\ pw_sent = <<>>
    /\ view_node = Node_new
    /\ nodes = EmptyMap
    /\ idents = EmptyMap

GmReceive(msg, payload) ==
    /\ pc = "ui"
    /\ ev' = [type |-> "receive", msg |-> msg, payload |-> payload]
    /\ items' = attach_receiver(items, msg, payload)
    /\ pw_sent' = <<>>
    /\ UNCHANGED <<backend_vars, zoom_factor, view_vars>>

PortWidgets == {id \in DOMAIN items : items[id].kind = "Port"}

(* The port dragged is dropped on the port target (ui/graph/port.rs). *)
PortDrop(target, dragged) ==
    /\ pc = "ui"
    /\ target \in PortWidgets
    /\ dragged \in PortWidgets
    /\ ev' = [type |-> "drop", target |-> target, dragged |-> dragged]
    /\ pw_sent' = port_toggled(connect_drop(items[target], items[dragged]))
    /\ UNCHANGED <<backend_vars, items, zoom_factor, view_vars>>

(* The same with the port widget of view/port.rs. *)
ViewPortDrop(target, dragged) ==
    /\ pc = "ui"
    /\ target \in PortWidgets
    /\ dragged \in PortWidgets
    /\ ev' = [type |-> "view_drop", target |-> target, dragged |-> dragged]
    /\ pw_sent' = port_toggled(view_connect_drop(items[target],
                                                DragContent(items[dragged])))
    /\ UNCHANGED <<backend_vars, items, zoom_factor, view_vars>>

SetZoomFactor(zoom) ==
    /\ pc = "ui"
    /\ ev' = [type |-> "set_zoom_factor", zoom_factor |-> zoom]
    /\ zoom_factor' = set_zoom_factor(zoom)
    /\ pw_sent' = <<>>
    /\ UNCHANGED <<backend_vars, items, view_vars>>

(* The messages the receiver matches, for the ids of one node, two ports   *)
(* and one link.                                                           *)
MirrorMessages ==
    {NodeAdded(id, None) : id \in NodeIds}
    \cup {PortAdded(id, n) : id \in PortIds, n \in NodeIds}
    \cup {PortFormatChanged(id) : id \in PortIds}
    \cup {LinkAdded(id, p[1], p[2]) : id \in LinkIds, p \in LinkPairs}
    \cup {LinkStateChanged(id) : id \in LinkIds}
    \cup {LinkFormatChanged(id) : id \in LinkIds}
    \cup {NodeRemoved(id) : id \in NodeIds}
    \cup {PortRemoved(id, n) : id \in PortIds, n \in NodeIds}
    \cup {LinkRemoved(id) : id \in LinkIds}
    \cup {Disconnected}

(* The fields a message of this type has; the others stay at NoPayload. *)
PayloadFields(type) ==
    CASE type = "PortAdded" -> {"direction"}
      [] type = "LinkAdded" -> {"active", "media_type"}
      [] type = "LinkStateChanged" -> {"active"}
      [] type \in {"LinkFormatChanged", "PortFormatChanged"} -> {"media_type"}
      [] OTHER -> {}

PayloadsOf(msg) ==
    {p \in Payloads :
        /\ "direction" \notin PayloadFields(msg.type) => p.direction = NoPayload.direction
        /\ "active" \notin PayloadFields(msg.type) => p.active = NoPayload.active
        /\ "media_type" \notin PayloadFields(msg.type) =>
                p.media_type = NoPayload.media_type}

NextMirror ==
    \/ \E msg \in MirrorMessages : \E payload \in PayloadsOf(msg) :
           GmReceive(msg, payload)
    \/ \E target, dragged \in PortIds : PortDrop(target, dragged)
    \/ \E target, dragged \in PortIds : ViewPortDrop(target, dragged)

SpecMirror == InitUi /\ [][NextMirror]_vars

(* SpecManager: the receiver under messages whose references may be        *)
(* missing or of another kind. An object is added under an id of its kind; *)
(* the node of a port, one end of the link 2 -> 3, and the id of a changed *)
(* or removed message are any id.                                          *)
ManagerLinkEnds ==
    {<<2, 3>>} \cup {<<b, 3>> : b \in Ids \ PortIds} \cup {<<2, b>> : b \in Ids \ PortIds}

ManagerMessages ==
    {NodeAdded(id, None) : id \in NodeIds}
    \cup {PortAdded(id, n) : id \in PortIds, n \in Ids}
    \cup {PortFormatChanged(id) : id \in Ids}
    \cup {LinkAdded(id, p[1], p[2]) : id \in LinkIds, p \in ManagerLinkEnds}
    \cup {LinkStateChanged(id) : id \in Ids}
    \cup {LinkFormatChanged(id) : id \in Ids}
    \cup {NodeRemoved(id) : id \in Ids}
    \cup {PortRemoved(id, n) : id \in Ids, n \in Ids}
    \cup {LinkRemoved(id) : id \in Ids}
    \cup {Disconnected}

NextManager ==
    \E msg \in ManagerMessages : \E payload \in PayloadsOf(msg) :
        GmReceive(msg, payload)

SpecManager == InitUi /\ [][NextManager]_vars

(* SpecSync: the backend of SpecQueue together with the GraphManager. The  *)
(* GraphManager's receiver takes the messages of a callback off the queue  *)
(* before the next callback runs: what it holds then is what it holds      *)
(* whenever it has drained the queue, since it takes the messages in the   *)
(* order they were sent. The fields of a message that are not ids are not  *)
(* followed: the widgets get those of NoPayload.                           *)
RECURSIVE Deliver(_, _)
Deliver(its, msgs) ==
    IF msgs = <<>> THEN its
    ELSE Deliver(attach_receiver(its, Head(msgs), NoPayload), Tail(msgs))

Drained == ev.type \in {"start", "drained"}

GmDrain ==
    /\ ~Drained
    /\ ev' = [type |-> "drained"]
    /\ items' = Deliver(items, sent)
    /\ sent' = <<>>
    /\ req' = <<>>
    /\ UNCHANGED <<pc, is_stopped, is_connecting, remote, quit, state, proxies,
                   live, clash, told, zoom_factor, pw_sent, view_vars, idents>>

NextSync ==
    \/ Drained /\ NextQueue
    \/ GmDrain

SpecSync == Init /\ [][NextSync]_vars

MaxZoomArg == 500

ZoomArgs == (-MaxZoomArg)..MaxZoomArg

NextZoom == \E zoom \in ZoomArgs : SetZoomFactor(zoom)

SpecZoom == InitUi /\ [][NextZoom]_vars

----------------------------------------------------------------------------
(* view/node.rs: the ports of one view Node                                *)

(* A port of the node: its direction, and the grid column and row it was   *)
(* attached at.                                                            *)
NodePort(direction, column, row) ==
    [direction |-> direction, column |-> column, row |-> row]

Node_add_port(node, id, direction) ==
    IF direction = "Input"
    THEN [ports |-> MapInsert(node.ports, id,
                              NodePort(direction, 0, node.num_ports_in + 1)),
          num_ports_in |-> node.num_ports_in + 1,
          num_ports_out |-> node.num_ports_out]
    ELSE [ports |-> MapInsert(node.ports, id,
                              NodePort(direction, 1, node.num_ports_out + 1)),
          num_ports_in |-> node.num_ports_in,
          num_ports_out |-> node.num_ports_out + 1]

(* For an Output port the counter written is num_ports_in, with the value  *)
(* num_ports_out - 1.                                                      *)
Node_remove_port(node, id) ==
    IF id \notin DOMAIN node.ports THEN node
    ELSE IF node.ports[id].direction = "Input"
    THEN [ports |-> MapRemove(node.ports, id),
          num_ports_in |-> node.num_ports_in - 1,
          num_ports_out |-> node.num_ports_out]
    ELSE [ports |-> MapRemove(node.ports, id),
          num_ports_in |-> node.num_ports_out - 1,
          num_ports_out |-> node.num_ports_out]

MaxPorts == 3

NodeAddPort(id, direction) ==
    /\ pc = "ui"
    /\ view_node.num_ports_in < MaxPorts
    /\ view_node.num_ports_out < MaxPorts
    /\ ev' = [type |-> "node_add_port", id |-> id, direction |-> direction]
    /\ view_node' = Node_add_port(view_node, id, direction)
    /\ pw_sent' = <<>>
    /\ UNCHANGED <<backend_vars, items, zoom_factor, nodes>>

NodeRemovePort(id) ==
    /\ pc = "ui"
    /\ ev' = [type |-> "node_remove_port", id |-> id]
    /\ view_node' = Node_remove_port(view_node, id)
    /\ pw_sent' = <<>>
    /\ UNCHANGED <<backend_vars, items, zoom_factor, nodes>>

NextViewNode ==
    \/ \E id \in PortIds, direction \in Directions : NodeAddPort(id, direction)
    \/ \E id \in PortIds : NodeRemovePort(id)

SpecViewNode == InitUi /\ [][NextViewNode]_vars

----------------------------------------------------------------------------
(* ui/graph/graph_view.rs and view/graph_view.rs: where a node is placed   *)

CANVAS_SIZE == 5000
COLUMN_NEAR == 50
FIRST_Y == 20
OFFSET_UI == 120
OFFSET_VIEW == 100

NodeTypes == {None, Some("Output"), Some("Input")}

Abs(n) == IF n < 0 THEN -n ELSE n

column_x(nt) ==
    IF nt.some THEN (IF nt.val = "Output" THEN 20 ELSE 820) ELSE 420

(* The positions left by the filter: those whose x is near the column. *)
near_column(ns, x) ==
    {ns[i] : i \in {j \in DOMAIN ns : Abs(x - ns[j][1]) < COLUMN_NEAR}}

(* partial_cmp of two (x, y) tuples: by x first, then by y. *)
tuple_less(p, q) == p[1] < q[1] \/ (p[1] = q[1] /\ p[2] < q[2])

(* max_by over the positions near the column, comparing the tuples. *)
max_by(ps) == CHOOSE p \in ps : \A q \in ps : ~tuple_less(p, q)

place_below(ns, nt, offset) ==
    LET x == column_x(nt)
        ps == near_column(ns, x)
    IN <<x, IF ps = {} THEN FIRST_Y ELSE max_by(ps)[2] + offset>>

(* GraphView::add_node of ui/graph/graph_view.rs. *)
add_node_at(ns, id, nt) == MapInsert(ns, id, place_below(ns, nt, OFFSET_UI))

(* GraphView::add_node of view/graph_view.rs. *)
view_add_node_at(ns, id, nt) == MapInsert(ns, id, place_below(ns, nt, OFFSET_VIEW))

(* GraphView::move_node: the position is clamped to the canvas. *)
move_node(ns, id, x, y, width, height) ==
    [ns EXCEPT ![id] = <<clamp(x, -(CANVAS_SIZE \div 2), (CANVAS_SIZE \div 2) - width),
                         clamp(y, -(CANVAS_SIZE \div 2), (CANVAS_SIZE \div 2) - height)>>]

GraphView_remove_node(ns, id) == MapRemove(ns, id)

MaxY == 400
ViewNodeIds == {1, 2, 3}
WidgetSize == 100
MoveXs == {30, 2450}
MoveYs == {20}

ViewAddNode(id, nt) ==
    /\ pc = "ui"
    /\ id \notin DOMAIN nodes
    /\ place_below(nodes, nt, OFFSET_UI)[2] <= MaxY
    /\ ev' = [type |-> "add_node", id |-> id, node_type |-> nt, offset |-> OFFSET_UI]
    /\ nodes' = add_node_at(nodes, id, nt)
    /\ pw_sent' = <<>>
    /\ UNCHANGED <<backend_vars, items, zoom_factor, view_node>>

OldViewAddNode(id, nt) ==
    /\ pc = "ui"
    /\ id \notin DOMAIN nodes
    /\ place_below(nodes, nt, OFFSET_VIEW)[2] <= MaxY
    /\ ev' = [type |-> "add_node", id |-> id, node_type |-> nt, offset |-> OFFSET_VIEW]
    /\ nodes' = view_add_node_at(nodes, id, nt)
    /\ pw_sent' = <<>>
    /\ UNCHANGED <<backend_vars, items, zoom_factor, view_node>>

(* The end of a drag of the node id to (x, y). *)
ViewMoveNode(id, x, y) ==
    /\ pc = "ui"
    /\ id \in DOMAIN nodes
    /\ ev' = [type |-> "move_node", id |-> id]
    /\ nodes' = move_node(nodes, id, x, y, WidgetSize, WidgetSize)
    /\ pw_sent' = <<>>
    /\ UNCHANGED <<backend_vars, items, zoom_factor, view_node>>

ViewRemoveNode(id) ==
    /\ pc = "ui"
    /\ id \in DOMAIN nodes
    /\ ev' = [type |-> "remove_node", id |-> id]
    /\ nodes' = GraphView_remove_node(nodes, id)
    /\ pw_sent' = <<>>
    /\ UNCHANGED <<backend_vars, items, zoom_factor, view_node>>

NextPlace ==
    \/ \E id \in ViewNodeIds, nt \in NodeTypes : ViewAddNode(id, nt)
    \/ \E id \in ViewNodeIds, nt \in NodeTypes : OldViewAddNode(id, nt)
    \/ \E id \in ViewNodeIds, x \in MoveXs, y \in MoveYs : ViewMoveNode(id, x, y)
    \/ \E id \in ViewNodeIds : ViewRemoveNode(id)

SpecPlace == InitUi /\ [][NextPlace]_vars

----------------------------------------------------------------------------
(* The claims                                                              *)

LinkItems(st, f, t) == {id \in DOMAIN st.items : st.items[id] = ItemLink(f, t)}

LinksFindTheirId(st) ==
    \A id \in DOMAIN st.items :
        st.items[id].kind = "Link" =>
            get_link_id(st, st.items[id].port_from, st.items[id].port_to) = Some(id)

IndexInStep(st) ==
    /\ LinksFindTheirId(st)
    /\ \A p \in DOMAIN st.links : get(st, st.links[p]) = Some(ItemLink(p[1], p[2]))

\* C1: within a connection, get(id) returns an item exactly for the ids whose
\* most recent event was an appearance (a node global, an info delivered by a
\* bound port proxy, a link info) with no removed event after it.
C1_GetIffLastEventAppeared ==
    pc = "connected" =>
        \A id \in MoreIds : get(state, id).some <=> id \in live

C1_Witness ==
    /\ pc = "connected"
    /\ sent = <<LinkRemoved(4)>>
    /\ ~get(state, 4).some
    /\ get(state, 2).some
    /\ live = {1, 2}

\* C2 as stated: in every reachable store state every tracked Link item is found
\* by get_link_id under its own ports, and the removal of a link leaves
\* get_link_id of its ports empty.
C2_EveryLinkFound ==
    [][ /\ pc' = "connected" => LinksFindTheirId(state')
        /\ (pc = "connected" /\ ev'.type = "global_remove"
                /\ IsKind(get(state, ev'.id), "Link")) =>
              ~get_link_id(state', get(state, ev'.id).val.port_from,
                                   get(state, ev'.id).val.port_to).some ]_vars

\* C2 amended: the same, in the store states reached while no link's first info
\* named a port pair that was already in the index.
C2_EveryLinkFoundNoClash ==
    [][ /\ (pc' = "connected" /\ ~clash') => LinksFindTheirId(state')
        /\ (pc = "connected" /\ ev'.type = "global_remove"
                /\ IsKind(get(state, ev'.id), "Link")) =>
              ~get_link_id(state', get(state, ev'.id).val.port_from,
                                   get(state, ev'.id).val.port_to).some ]_vars

C2_Witness ==
    /\ pc = "connected"
    /\ ~clash
    /\ sent = <<LinkRemoved(5)>>
    /\ get(state, 4) = Some(ItemLink(2, 3))
    /\ get_link_id(state, 2, 3) = Some(4)
    /\ ~get_link_id(state, 3, 2).some

\* C3 as stated: after any sequence of insert and remove calls the pair index
\* and the Link items are in step (an entry (from, to) -> id exactly when
\* items[id] is a Link with these ports).
C3_IndexInStep == IndexInStep(state)

\* C3 amended: the index and the Link items are in step after every sequence of
\* insert and remove calls in which no insert named an id that held a Link and
\* no Link was inserted under a pair already in the index.
C3_IndexInStepNoClash == ~clash => IndexInStep(state)

C3_Witness ==
    /\ pc = "store"
    /\ ~clash
    /\ ev.type = "remove"
    /\ IsKind(ev.removed, "Link")
    /\ Cardinality(DOMAIN state.links) = 1
    /\ Cardinality(DOMAIN state.items) = 2

\* C4: a ToggleLink(A, B) for two tracked ports with no Link item A->B requests
\* the creation of A->B; a ToggleLink(A, B) handled while the link A->B is
\* tracked (its first info was ingested) requests the destruction of that
\* link's id and no creation.
C4_ToggleCreatesThenDestroys ==
    [][ (pc = "connected" /\ ev'.type = "ToggleLink" /\ ~clash) =>
          LET a == ev'.port_from
              b == ev'.port_to
          IN /\ ( /\ IsKind(get(state, a), "Port")
                  /\ IsKind(get(state, b), "Port")
                  /\ LinkItems(state, a, b) = {} ) =>
                    req' = <<CreateLink(get(state, a).val.node_id, a,
                                        get(state, b).val.node_id, b)>>
             /\ \A id \in LinkItems(state, a, b) : req' = <<DestroyGlobal(id)>> ]_vars

C4_Witness ==
    /\ pc = "connected"
    /\ ~clash
    /\ ev = ToggleLink(2, 3)
    /\ req = <<DestroyGlobal(4)>>
    /\ get(state, 4) = Some(ItemLink(2, 3))

C6_UnknownPortFailsSoftly ==
    [][ LET a == ev'.port_from
            b == ev'.port_to
            NodeKnown(p) == /\ get_node_of_port(state, p).some
                            /\ IsKind(get(state, get_node_of_port(state, p).val), "Node")
        IN ( /\ pc = "connected"
             /\ ev'.type = "ToggleLink"
             /\ ~get_link_id(state, a, b).some
             /\ (~NodeKnown(a) \/ ~NodeKnown(b)) ) =>
               (req' = <<>> /\ state' = state /\ pc' = "connected") ]_vars

\* C7: the first info of a port that names an owning node not tracked as a Node
\* inserts nothing, sends nothing and leaves the backend running.
C7_PortOfUnknownNodeRejected ==
    [][ ( /\ pc = "connected"
          /\ ev'.type = "port_info"
          /\ ParsedNodeId(ev'.node_id_prop).some
          /\ ~IsKind(get(state, ev'.id), "Port")
          /\ ~IsKind(get(state, ParsedNodeId(ev'.node_id_prop).val), "Node") ) =>
            (state' = state /\ sent' = <<>> /\ pc' = "connected") ]_vars

\* C8: a Link item enters the store only in a step before which both its ports
\* are tracked Port items.
C8_LinkPortsResolveAtInsert ==
    [][ (pc = "connected" /\ pc' = "connected") =>
          \A id \in DOMAIN state'.items :
              (state'.items[id].kind = "Link" /\ ~IsKind(get(state, id), "Link")) =>
                  /\ IsKind(get(state, state'.items[id].port_from), "Port")
                  /\ IsKind(get(state, state'.items[id].port_to), "Port") ]_vars

\* C9: every step that enters Connected leaves an empty store (items, pair
\* index, ident counters) and an empty proxy table.
C9_FreshStorePerConnection ==
    [][ (pc # "connected" /\ pc' = "connected") =>
          (state' = State_new /\ proxies' = EmptyMap) ]_vars

C9_Witness ==
    /\ pc = "connected"
    /\ ev.type = "connect"
    /\ ev.prev_items = 3
    /\ ev.prev_proxies = 3
    /\ state = State_new
    /\ proxies = EmptyMap

\* C10: the step in which the backend leaves Connected (after a broken pipe, a
\* Terminate or a Connect) sends Disconnected as its last message and goes to the
\* head of the loop; Connecting, Connected and the thread's exit come only in
\* later steps.
C10_DisconnectedOnLeave ==
    [][ /\ (pc = "connected" /\ pc' \notin {"connected", "panicked"}) =>
              /\ Len(sent') > 0
              /\ sent'[Len(sent')] = Disconnected
              /\ pc' = "loop_top"
        /\ (pc = "connected" /\ pc' # "panicked") =>
              \A i \in 1..Len(sent') : sent'[i] \notin {Connecting, Connected} ]_vars

C10_Witness ==
    /\ pc = "loop_top"
    /\ ev.type = "run_returned"
    /\ sent = <<Disconnected>>
    /\ is_stopped
    /\ DOMAIN state.items # {}

EpipeHandled == ev = [type |-> "core_error", id |-> PW_ID_CORE, res |-> -EPIPE]

(* From some point on no connect attempt fails. *)
RemoteStaysAvailable == <>[][~ConnectFail]_vars

C13_RetryWaitServesControl ==
    [][ /\ (pc = "retry_wait" /\ ev'.type = "message" /\ ev'.msg.type = "Connect") =>
              (remote' = ev'.msg.remote /\ quit')
        /\ remote' # remote => (ev'.type = "message" /\ ev'.msg = Connect(remote'))
        /\ ev'.type = "connect" => ev'.remote = remote
        /\ (pc = "retry_wait" /\ ev'.type = "message" /\ ev'.msg = Terminate) =>
              (is_stopped' /\ quit')
        /\ is_stopped => (is_stopped' /\ ev'.type # "connect") ]_vars

C13_Witness ==
    /\ pc = "retry_wait"
    /\ is_connecting
    /\ ev = [type |-> "message", msg |-> Connect(Some("r"))]
    /\ remote = Some("r")
    /\ quit

\* C14: remove(id) on an id that is not in the store returns None and leaves
\* the items, the pair index and the ident counters as they are; so does a
\* second remove(id) directly after a first one.
C14_RemoveAbsentIsNoop ==
    pc = "store" =>
        \A id \in StoreIds :
            LET first == remove(state, id)
                second == remove(first.state, id)
            IN /\ ~get(state, id).some => first = [state |-> state, removed |-> None]
               /\ second = [state |-> first.state, removed |-> None]

C14_Witness ==
    /\ pc = "store"
    /\ ev.type = "remove"
    /\ ~ev.removed.some
    /\ DOMAIN state.items # {}
    /\ DOMAIN state.links # {}
    /\ DOMAIN state.ident_increments # {}

\* C15: a removed event for a tracked id sends exactly one message, of the
\* kind of the removed item: NodeRemoved{id} for a Node, PortRemoved{id, node_id}
\* for a Port, with the node_id its first info carried, LinkRemoved{id} for a
\* Link.
C15_RemovalMessageMatchesKind ==
    [][ /\ (pc = "connected" /\ ev'.type = "global_remove"
                /\ get(state, ev'.id).some) =>
              LET item == get(state, ev'.id).val
              IN sent' = << CASE item.kind = "Node" -> NodeRemoved(ev'.id)
                              [] item.kind = "Port" -> PortRemoved(ev'.id, item.node_id)
                              [] item.kind = "Link" -> LinkRemoved(ev'.id) >>
        /\ (pc = "connected" /\ pc' = "connected") =>
              \A id \in PortIds :
                  (IsKind(get(state', id), "Port") /\ get(state', id) # get(state, id)) =>
                      /\ ev'.type = "port_info"
                      /\ ev'.id = id
                      /\ ParsedNodeId(ev'.node_id_prop) = Some(get(state', id).val.node_id) ]_vars

C15_Witness ==
    /\ pc = "connected"
    /\ ev = [type |-> "global_remove", id |-> 2]
    /\ sent = <<PortRemoved(2, 1)>>
    /\ ~get(state, 2).some
    /\ get(state, 1).some

\* C16: a removed event for an id that is not in the store sends nothing and
\* leaves the items, the pair index and the ident counters as they are; a node
\* info or port info for an id with no registered proxy sends nothing, requests
\* nothing and changes neither the store nor the proxy table; the backend stays
\* connected in both cases.
C16_UnknownIdDropped ==
    [][ pc = "connected" =>
          /\ (ev'.type = "global_remove" /\ ~get(state, ev'.id).some) =>
                (sent' = <<>> /\ state' = state /\ pc' = "connected")
          /\ (ev'.type \in {"node_info", "port_info"} /\ ev'.id \notin DOMAIN proxies) =>
                /\ sent' = <<>>
                /\ req' = <<>>
                /\ state' = state
                /\ proxies' = proxies
                /\ pc' = "connected" ]_vars

C16_Witness ==
    /\ pc = "connected"
    /\ ev.type = "node_info"
    /\ ev.has_media_name
    /\ sent = <<>>
    /\ DOMAIN proxies = {2, 4}
    /\ DOMAIN state.items = {2, 4}

\* C17: an info event for an already tracked object sends an update only for
\* what its change mask flags and leaves the store as it is: for a link,
\* LinkStateChanged iff STATE is flagged and LinkFormatChanged iff FORMAT is
\* flagged; for a port, flagged params (its formats, hence its media type) lead
\* to a PortFormatChanged, sent at once or after a new enumeration of its formats.
C17_UpdateFollowsChangeMask ==
    [][ /\ (pc = "connected" /\ ev'.type = "link_info"
                /\ IsKind(get(state, ev'.id), "Link")) =>
              /\ state' = state
              /\ sent' = (IF "STATE" \in ev'.change_mask
                          THEN <<LinkStateChanged(ev'.id)>> ELSE <<>>)
                         \o (IF "FORMAT" \in ev'.change_mask
                             THEN <<LinkFormatChanged(ev'.id)>> ELSE <<>>)
        /\ (pc = "connected" /\ ev'.type = "port_info"
                /\ MapGet(proxies, ev'.id) = Some("Port")
                /\ IsKind(get(state, ev'.id), "Port")) =>
              /\ state' = state
              /\ ~ev'.params_changed => (sent' = <<>> /\ req' = <<>>)
              /\ ev'.params_changed =>
                    \/ sent' = <<PortFormatChanged(ev'.id)>>
                    \/ req' = <<EnumParams(ev'.id)>> ]_vars

\* C18: an info event for a port or link id that is not in the store (for a
\* port: delivered by its bound proxy with a node.id that parses) inserts the
\* item and sends PortAdded / LinkAdded; an info event for an id that is in the
\* store sends no Added message. So a step sends the Added message of an id
\* exactly when the id enters the store in that step.
C18_AddedOncePerAppearance ==
    [][ (pc = "connected" /\ pc' = "connected") =>
          /\ \A id \in PortIds :
                (\E i \in 1..Len(sent') : sent'[i].type = "PortAdded" /\ sent'[i].id = id)
                    <=> (~get(state, id).some /\ get(state', id).some)
          /\ \A id \in MoreLinkIds :
                (\E i \in 1..Len(sent') : sent'[i].type = "LinkAdded" /\ sent'[i].id = id)
                    <=> (~get(state, id).some /\ get(state', id).some)
          /\ (ev'.type = "port_info" /\ MapGet(proxies, ev'.id) = Some("Port")
                 /\ ~get(state, ev'.id).some) =>
                sent' = <<PortAdded(ev'.id, ParsedNodeId(ev'.node_id_prop).val)>>
          /\ (ev'.type = "link_info" /\ ~get(state, ev'.id).some) =>
                sent' = <<LinkAdded(ev'.id, ev'.port_from, ev'.port_to)>> ]_vars

C18_Witness ==
    /\ pc = "connected"
    /\ ev.type = "link_info"
    /\ ev.change_mask = {}
    /\ sent = <<>>
    /\ get(state, 4) = Some(ItemLink(ev.port_from, ev.port_to))
    /\ IsKind(get(state, 2), "Port")

\* C19: the node_type that handle_node puts into NodeAdded is None whenever
\* media.category contains "Duplex", whatever media.class is; otherwise Input
\* when media.class contains "Sink" or "Input", Output when it contains "Source"
\* or "Output", and None in every other case (a missing media.class included).
C19_NodeTypeFromProps ==
    (pc = "connected" /\ ev.type = "global" /\ ev.kind = "Node" /\ ev.props.some) =>
        LET category == ev.props.val.media_category
            class == ev.props.val.media_class
            expected ==
                IF category.some /\ contains(category.val, Str_Duplex) THEN None
                ELSE IF ~class.some THEN None
                ELSE IF contains(class.val, Str_Sink) \/ contains(class.val, Str_Input)
                     THEN Some("Input")
                ELSE IF contains(class.val, Str_Source) \/ contains(class.val, Str_Output)
                     THEN Some("Output")
                ELSE None
        IN sent = <<NodeAdded(ev.id, expected)>>

\* C20: a node global without properties, and a first port info (delivered by
\* the port's bound proxy) that has no properties, no node.id or a node.id that
\* does not parse, abort that one event only: nothing is sent, the store is
\* unchanged and the backend stays connected.
C20_MissingPropertyAbortsEventOnly ==
    [][ ( /\ pc = "connected"
          /\ \/ ev'.type = "global" /\ ev'.kind = "Node" /\ ~ev'.props.some
             \/ /\ ev'.type = "port_info"
                /\ MapGet(proxies, ev'.id) = Some("Port")
                /\ ~IsKind(get(state, ev'.id), "Port")
                /\ ~ParsedNodeId(ev'.node_id_prop).some ) =>
            (pc' = "connected" /\ state' = state /\ sent' = <<>>) ]_vars

(* State.insert is called in the handlers exactly where an Added message  *)
(* is sent, for the id of that message.                                    *)
InsertOnlyForAbsentId ==
    pc = "connected" =>
        \A i \in 1..Len(sent') :
            sent'[i].type \in AddedTypes => ~get(state, sent'[i].id).some

RemovedLinkFindsOwnEntry ==
    (pc = "connected" /\ ev'.type = "global_remove"
        /\ IsKind(get(state, ev'.id), "Link")) =>
        get_link_id(state, get(state, ev'.id).val.port_from,
                           get(state, ev'.id).val.port_to) = Some(ev'.id)

\* C21 as stated: with a remote that announces an id only while it is not
\* announced and sends infos and removals only for announced ids, State.insert
\* is never called for an id present in the store, and the removal of a Link
\* finds the pair entry of that link in the index.
C21_ValidRemoteNeverOverwrites ==
    [][ InsertOnlyForAbsentId /\ RemovedLinkFindsOwnEntry ]_vars

\* C21 amended: the same, the removal of a Link finding its own pair entry as
\* long as the remote never had two links announced with the same pair of ports.
C21_ValidRemoteNoTwinLinks ==
    [][ InsertOnlyForAbsentId /\ (~clash => RemovedLinkFindsOwnEntry) ]_vars

C21_Witness ==
    /\ pc = "connected"
    /\ ~clash
    /\ ev = [type |-> "global_remove", id |-> 4]
    /\ sent = <<LinkRemoved(4)>>
    /\ get(state, 5) = Some(ItemLink(3, 2))
    /\ IsKind(get(state, 2), "Port")
    /\ IsKind(get(state, 1), "Node")

AboutObject(m) == m.type \in AddedTypes \cup ChangedTypes \cup RemovedTypes

C24_EveryConnectionAnnounced ==
    [][ (ev'.type = "connect" /\ ev'.ok) => sent' = <<Connected>> ]_vars

\* C23: when GraphManager has processed the Removed message of an id, its
\* items map holds no entry for that id, whatever messages came before it.
C23_RemovedIdLeavesMirror ==
    [][ (ev'.type = "receive" /\ ev'.msg.type \in RemovedTypes) =>
            ev'.msg.id \notin DOMAIN items' ]_vars

\* C26: after any sequence of set_zoom_factor calls the zoom factor is
\* between 30% and 300% inclusive.
C26_ZoomWithin30And300 ==
    pc = "ui" => (30 <= zoom_factor /\ zoom_factor <= 300)

\* C29: a drop of one port on another sends at most one ToggleLink; the one
\* it sends names the output port first and the input port second, whichever
\* of the two was dragged, and a drop on a port of the same direction sends
\* none.
C29_ToggleLinkIsOutputThenInput ==
    [][ ev'.type \in {"drop", "view_drop"} =>
          LET port == items[ev'.target]
              other == items[ev'.dragged]
          IN IF port.direction = other.direction THEN pw_sent' = <<>>
             ELSE /\ Len(pw_sent') = 1
                  /\ pw_sent'[1].type = "ToggleLink"
                  /\ items[pw_sent'[1].port_from].direction = "Output"
                  /\ items[pw_sent'[1].port_to].direction = "Input"
                  /\ {pw_sent'[1].port_from, pw_sent'[1].port_to}
                        = {ev'.target, ev'.dragged} ]_vars

C29_Witness ==
    /\ pc = "ui"
    /\ ev = [type |-> "drop", target |-> 2, dragged |-> 3]
    /\ items[2].direction = "Input"
    /\ items[3].direction = "Output"
    /\ pw_sent = <<ToggleLink(3, 2)>>

StoreWritingEvents == {"global", "port_info", "link_info", "global_remove"}

\* C25: a ToggleLink handled without a panic issues exactly one request to the
\* remote, a destroy or a create, sends no message and leaves the store (items,
\* pair index, ident counters) and the proxy table as they were; while connected
\* the store changes only in steps that ingest a global, an info or a removal.
C25_ToggleIsFireAndForget ==
    [][ /\ (pc = "connected" /\ pc' = "connected" /\ ev'.type = "ToggleLink") =>
              /\ Len(req') = 1
              /\ req'[1].type \in {"destroy", "create"}
              /\ sent' = <<>>
              /\ state' = state
              /\ proxies' = proxies
        /\ (pc = "connected" /\ pc' = "connected" /\ state' # state) =>
              ev'.type \in StoreWritingEvents ]_vars

C25_Witness ==
    /\ pc = "connected"
    /\ ev = ToggleLink(2, 3)
    /\ req = <<CreateLink(1, 2, 1, 3)>>
    /\ DOMAIN state.items = {2, 3}
    /\ state.links = EmptyMap

\* C27: State.remove of a Node removes that item only: every other item, so
\* every Port of that node and every Link, stays as it was and the pair index is
\* unchanged. (The witness is a store in which get_node_of_port then yields the
\* id of the removed node.)
C27_NodeRemovalDoesNotCascade ==
    [][ (pc = "store" /\ ev'.type = "remove" /\ IsKind(get(state, ev'.id), "Node")) =>
          /\ DOMAIN state'.items = (DOMAIN state.items) \ {ev'.id}
          /\ \A id \in DOMAIN state'.items : state'.items[id] = state.items[id]
          /\ state'.links = state.links ]_vars

C27_Witness ==
    /\ pc = "store"
    /\ ev.type = "remove"
    /\ ev.id = 1
    /\ IsKind(ev.removed, "Node")
    /\ get_node_of_port(state, 2) = Some(1)
    /\ ~get(state, 1).some
    /\ get(state, 3) = Some(ItemLink(2, 3))
    /\ get_link_id(state, 2, 3) = Some(3)

\* C28: the request of a ToggleLink(f, t) handled without a panic is decided by
\* the pair index as it is in that step: the destroy of the id the index holds
\* for (f, t), else the creation of f -> t; and a ToggleLink handled right after
\* the same ToggleLink, nothing ingested in between, issues the same request
\* again: a second create, or a second destroy of the same id.
C28_ToggleDecidedByIndexAlone ==
    [][ (pc = "connected" /\ pc' = "connected" /\ ev'.type = "ToggleLink") =>
          LET f == ev'.port_from
              t == ev'.port_to
              link == get_link_id(state, f, t)
          IN /\ link.some => req' = <<DestroyGlobal(link.val)>>
             /\ ~link.some =>
                    req' = <<CreateLink(get_node_of_port(state, f).val, f,
                                        get_node_of_port(state, t).val, t)>>
             /\ ev = ev' => req' = req ]_vars

C28_Witness ==
    /\ pc = "connected"
    /\ ev = ToggleLink(3, 2)
    /\ req = <<DestroyGlobal(5)>>
    /\ get(state, 5) = Some(ItemLink(3, 2))
    /\ get_link_id(state, 3, 2) = Some(5)

ConnectHandled == ev.type = "message" /\ ev.msg.type = "Connect"

SessionEndsAfterConnect ==
    /\ (pc = "connected" /\ ev'.type = "message" /\ ev'.msg.type = "Connect") =>
          (remote' = ev'.msg.remote /\ quit' /\ pc' = "connected")
    /\ remote' # remote => (ev'.type = "message" /\ ev'.msg.type = "Connect")
    /\ (pc = "connected" /\ pc' = "loop_top") => sent' = <<Disconnected>>
    /\ ev'.type = "connect" => ev'.remote = remote
    /\ (pc # "connected" /\ pc' = "connected") =>
          (state' = State_new /\ proxies' = EmptyMap)

C31_OnlyCoreEpipeIsFatal ==
    [][ (pc = "connected" /\ ev'.type = "core_error") =>
          IF ev'.id = PW_ID_CORE /\ ev'.res = -EPIPE
          THEN quit' /\ sent' = <<Disconnected>>
          ELSE /\ sent' = <<>>
               /\ state' = state
               /\ quit' = quit
               /\ pc' = "connected" ]_vars

(* The entries a handler looks up before it acts, with the kind it casts   *)
(* them to.                                                                *)
LooksUp(msg) ==
    CASE msg.type = "PortAdded" -> {<<msg.node_id, "Node">>}
      [] msg.type = "LinkAdded" -> {<<msg.port_from, "Port">>, <<msg.port_to, "Port">>}
      [] msg.type = "PortFormatChanged" -> {<<msg.id, "Port">>}
      [] msg.type \in {"LinkStateChanged", "LinkFormatChanged"} -> {<<msg.id, "Link">>}
      [] msg.type = "NodeRemoved" -> {<<msg.id, "Node">>}
      [] msg.type = "PortRemoved" -> {<<msg.node_id, "Node">>, <<msg.id, "Port">>}
      [] msg.type = "LinkRemoved" -> {<<msg.id, "Link">>}
      [] OTHER -> {}

MissingOrOtherKind(its, msg) ==
    \E l \in LooksUp(msg) : ~IsWidget(MapGet(its, l[1]), l[2])

\* C32 as stated: a message that refers to an id which is missing from items,
\* or is stored there as another kind of widget than the handler casts it to,
\* leaves items and the widgets in it unchanged.
C32_BadReferenceChangesNothing ==
    [][ (ev'.type = "receive" /\ MissingOrOtherKind(items, ev'.msg)) =>
            items' = items ]_vars

\* C32 amended: such an Added or Changed message leaves items and the widgets
\* unchanged; so does a Removed message whose id is missing, and a PortRemoved
\* whose node is missing or not a node; but NodeRemoved, LinkRemoved, and
\* PortRemoved with its node present, take the entry of their id out of items
\* also when it holds another kind of widget.
C32_BadReferenceChangesNothingButRemoval ==
    [][ (ev'.type = "receive" /\ MissingOrOtherKind(items, ev'.msg)) =>
          LET msg == ev'.msg
          IN IF msg.type \notin RemovedTypes THEN items' = items
             ELSE IF msg.id \notin DOMAIN items THEN items' = items
             ELSE IF msg.type = "PortRemoved"
                        /\ ~IsWidget(MapGet(items, msg.node_id), "Node")
                  THEN items' = items
             ELSE items' = MapRemove(items, msg.id) ]_vars

C32_Witness ==
    /\ pc = "ui"
    /\ ev.type = "receive"
    /\ ev.msg = LinkStateChanged(2)
    /\ ev.payload.active
    /\ IsWidget(MapGet(items, 2), "Port")
    /\ IsWidget(MapGet(items, 4), "Link")
    /\ ~items[4].active

DisconnectedIn(msgs) == Cardinality({i \in DOMAIN msgs : msgs[i] = Disconnected})

EndsSession(e) == e.type = "run_returned"

BrokenPipe(e) == e.type = "core_error" /\ e.id = PW_ID_CORE /\ e.res = -EPIPE

\* C33 as stated: a connected session puts exactly one Disconnected on the queue
\* to the UI: the step in which run() returns sends one, and no other step of the
\* session sends any, however the session ends.
C33_OneDisconnectedPerSession ==
    [][ pc = "connected" =>
          DisconnectedIn(sent') = IF EndsSession(ev') THEN 1 ELSE 0 ]_vars

\* C33 amended: the step in which run() returns sends one Disconnected, each
\* broken-pipe error handled by the core listener sends one more, and no other
\* step of a session sends any: a session ended by Terminate or Connect sends
\* one, a session ended by a broken pipe at least two.
C33_OneDisconnectedPlusOnePerBrokenPipe ==
    [][ pc = "connected" =>
          DisconnectedIn(sent') =
              IF EndsSession(ev') \/ BrokenPipe(ev') THEN 1 ELSE 0 ]_vars

C33_Witness ==
    /\ pc = "connected"
    /\ BrokenPipe(ev)
    /\ sent = <<Disconnected>>
    /\ quit
    /\ ENABLED LeaveConnected

ConnectingIn(msgs) == \E i \in DOMAIN msgs : msgs[i] = Connecting

\* C34: Connecting is sent only by a failed connect attempt made while
\* is_connecting is false, and that attempt sets is_connecting; is_connecting
\* then stays set until a connect attempt succeeds. So between a Connecting and
\* the next successful attempt no further Connecting is sent, however many
\* attempts fail and whatever messages the waits handle.
C34_ConnectingOncePerRunOfFailures ==
    [][ /\ ConnectingIn(sent') =>
              /\ ev'.type = "connect" /\ ~ev'.ok
              /\ ~is_connecting /\ is_connecting'
              /\ sent' = <<Connecting>>
        /\ (is_connecting /\ ~is_connecting') => (ev'.type = "connect" /\ ev'.ok) ]_vars

C34_Witness ==
    /\ pc = "retry_wait"
    /\ ev.type = "connect"
    /\ ~ev.ok
    /\ is_connecting
    /\ sent = <<>>
    /\ ev.remote = Some("r")

ToggleInWait(e) == e.type = "message" /\ e.msg.type = "ToggleLink"

\* C35: a ToggleLink handled by the receiver of the first wait or of a retry
\* wait makes no request to the remote, sends nothing to the UI, does not make
\* run() return (quit keeps its value, the thread stays in the wait), does not
\* panic, and leaves the loop state, the store and the proxies as they were, so
\* nothing is kept of it that a later connection could act on.
C35_ToggleOutsideConnectionIsDropped ==
    [][ (Waiting /\ ToggleInWait(ev')) =>
            /\ req' = <<>>
            /\ sent' = <<>>
            /\ pc' = pc
            /\ UNCHANGED <<quit, is_stopped, is_connecting, remote, state, proxies>> ]_vars

C35_Witness ==
    /\ pc = "retry_wait"
    /\ ToggleInWait(ev)
    /\ ev.msg = ToggleLink(2, 3)
    /\ ~quit
    /\ is_connecting

\* C36: whenever the GraphManager has received every message sent so far in a
\* connection, the ids in its items map are the ids in the backend's store.
C36_MirrorHoldsTheStoreIds ==
    (pc = "connected" /\ Drained) => DOMAIN items = DOMAIN state.items

PortsHeld(node, direction) ==
    Cardinality({id \in DOMAIN node.ports : node.ports[id].direction = direction})

\* C37: after any calls of add_port and remove_port on a view Node,
\* num_ports_in is the number of Input ports in its ports map and num_ports_out
\* the number of Output ports in it.
C37_CountersCountThePorts ==
    pc = "ui" =>
        /\ view_node.num_ports_in = PortsHeld(view_node, "Input")
        /\ view_node.num_ports_out = PortsHeld(view_node, "Output")

(* The position with the greatest y. *)
max_by_y(ps) == CHOOSE p \in ps : \A q \in ps : q[2] <= p[2]

\* C38: add_node puts the new node at the x of its type's column (20 for
\* Output, 820 for Input, 420 for none); at y = 20 when no node is within 50
\* units of that x, and otherwise at the fixed offset below the greatest y of
\* the nodes within 50 units of that x, so below every one of them.
C38_PlacedBelowItsColumn ==
    [][ ev'.type = "add_node" =>
          LET x == column_x(ev'.node_type)
              ps == near_column(nodes, x)
              at == nodes'[ev'.id]
          IN /\ at[1] = x
             /\ x = CASE ev'.node_type = Some("Output") -> 20
                      [] ev'.node_type = Some("Input") -> 820
                      [] OTHER -> 420
             /\ IF ps = {} THEN at[2] = FIRST_Y
                ELSE /\ at[2] = max_by_y(ps)[2] + ev'.offset
                     /\ \A p \in ps : p[2] < at[2] ]_vars

\* C39: when every node takes its ident from get_node_ident in the step that
\* inserts it, the idents of the nodes tracked at the same time are pairwise
\* distinct.
C39_TrackedIdentsAreDistinct ==
    pc = "store" =>
        \A i \in DOMAIN idents : \A j \in DOMAIN idents :
            i # j => idents[i] # idents[j]

====
